---- MODULE Spec2Model ----
(***************************************************************************)
(* A model of the ncb-tts-r2 voice bot: the circuit breaker and the retry  *)
(* wrapper (src/src/utils.rs), the synthesis cache and backend router      *)
(* (src/src/tts/tts.rs), the per-guild session and its registry            *)
(* (src/src/tts/instance.rs, src/src/commands, src/src/events) and the     *)
(* connection monitor (src/src/connection_monitor.rs).                     *)
(*                                                                         *)
(* The module holds several specifications over one set of variables.      *)
(* Each specification moves its own group of variables and leaves the      *)
(* other groups at their initial value.                                    *)
(***************************************************************************)
EXTENDS Integers, Sequences, FiniteSets, TLC

VARIABLES
    now,      \* the monotonic clock read by Instant::now(), in ticks
    cb,       \* one CircuitBreaker value (utils.rs:23-29)
    cbObs,    \* history of the last call made on cb (observation only)
    rt,       \* one running retry_with_backoff call (utils.rs:125-171)
    cache,    \* TTS.cache: the LRU's keys, most recently used first (tts.rs:29)
    breaker,  \* TTS.gcp_circuit_breaker and TTS.voicevox_circuit_breaker (tts.rs:30-31)
    call,     \* the synthesize_gcp / synthesize_voicevox calls in progress, one per caller
    tasks,    \* keys of the spawned compress-and-cache tasks not yet run (tts.rs:163-171)
    original_api_url,  \* whether voicevox_client.original_api_url is set (tts.rs:110)
    fresh,    \* keys a call has returned Ok for and the cache has not evicted since (observation only)
    storage,  \* TTSData: the registry, HashMap<GuildId, TTSInstance> (data.rs)
    database, \* the store: blob = the tts:instance:<guild> records, list = the tts:instances set
    calls,    \* songbird's manager: per guild "none", "handle" (not connected) or "connected"
    reconnection_attempts,  \* ConnectionMonitor.reconnection_attempts (connection_monitor.rs)
    streak,   \* per guild, the reconnections that failed since the last that worked or the last eviction (observation only)
    occ,      \* per guild, the number of users who are not bots in its voice channel "V"
    dbFaults, \* how many commands the store has failed so far (observation only)
    ops,      \* kinds of handlers that have run, kept until the store's first fault (observation only)
    ev,       \* what the last handler was given and did, kind "off" while no one watches (observation only)
    server_config,  \* the stored ServerConfig of guild "g1", None while there is no record
    hist,     \* the latest reads of the session of guild "g1", the latest first (observation only)
    norm,     \* one text under a dictionary's literal rules: the text, the rules, the passes made
    utter,    \* one utterance in Message::synthesize (implement/message.rs:111-196) and what its calls did (observation only)
    lock,     \* the holder of the registry's write lock (TTSData's RwLock, data.rs), None while it is free
    handler,  \* the event handlers in progress on guild "g1": position, kind of event, what they did
    queue,    \* the tracks enqueued on the call of guild "g1", by handler, the first enqueued first
    order     \* the handlers in the order in which they got the registry's write lock (observation only)

cbVars == <<cb, cbObs>>
rtVars == <<rt>>
ttsVars == <<cache, breaker, call, tasks, original_api_url, fresh>>
regVars == <<storage, database, calls, reconnection_attempts, streak, occ, dbFaults, ops, ev>>
readVars == <<server_config, hist>>
dictVars == <<norm>>
utterVars == <<utter>>
lockVars == <<lock, handler, queue, order>>
vars == <<now, cb, cbObs, rt, cache, breaker, call, tasks, original_api_url, fresh,
          storage, database, calls, reconnection_attempts, streak, occ, dbFaults, ops, ev,
          server_config, hist, norm, utter, lock, handler, queue, order>>

\* Option<T>: None is the empty sequence, Some(x) the one-element sequence.
None == <<>>
Some(x) == <<x>>

Min(a, b) == IF a <= b THEN a ELSE b
Max(a, b) == IF a >= b THEN a ELSE b

(***************************************************************************)
(* Bounds of the model.                                                    *)
(***************************************************************************)
MaxTime == 4          \* the clock stops ticking here
MaxThreshold == 3     \* thresholds given to CircuitBreaker::new: 0..MaxThreshold
MaxTimeout == 2       \* timeouts given to CircuitBreaker::new: 0..MaxTimeout ticks
MaxFailures == 5      \* on_failure is not called again once failure_count is here
MaxAttemptsArg == 4   \* max_attempts given to retry_with_backoff: 0..MaxAttemptsArg
MaxFailFirst == 4     \* the operation fails its first k calls, k in 0..MaxFailFirst
CacheCap == 1         \* capacity of the synthesis cache in the model (DEFAULT_CACHE_SIZE entries in the code)
MaxTtsFailures == 6   \* no synthesize call starts once its breaker's failure_count is here
MaxTtsTicks == 2      \* the synthesis clock stops after this many half-timeouts
MaxUsers == 1         \* at most this many users who are not bots in a voice channel
MaxDbFaults == 1      \* the store fails at most this many commands in a run
MaxHist == 3          \* how many of the latest reads are remembered
MaxTextLen == 4       \* texts given to the dictionary's rules: up to this many characters
MaxPasses == 2        \* the rule list is applied to a text up to this many times

(***************************************************************************)
(* CircuitBreaker (src/src/utils.rs:13-92)                                 *)
(***************************************************************************)
CircuitBreakerState == {"Closed", "Open", "HalfOpen"}

DefaultThreshold == 5
DefaultTimeoutSecs == 60

\* impl Default for CircuitBreaker
CircuitBreakerDefault ==
    [state |-> "Closed", failure_count |-> 0, last_failure_time |-> None,
     threshold |-> DefaultThreshold, timeout |-> DefaultTimeoutSecs]

\* CircuitBreaker::new: threshold and timeout given, the rest from default()
CircuitBreakerNew(threshold, timeout) ==
    [CircuitBreakerDefault EXCEPT !.threshold = threshold, !.timeout = timeout]

\* Instant::elapsed() of an instant t0 read at time t
elapsed(t0, t) == t - t0

\* CircuitBreaker::can_execute, evaluated at time t
can_execute(c, t) ==
    CASE c.state = "Closed" -> TRUE
      [] c.state = "Open" ->
            IF c.last_failure_time # None
            THEN elapsed(c.last_failure_time[1], t) >= c.timeout
            ELSE TRUE
      [] c.state = "HalfOpen" -> TRUE

\* A breaker that forgets to clear the counter on success.
on_success_keeps_count(c) ==
    [c EXCEPT !.state = "Closed", !.last_failure_time = None]

\* CircuitBreaker::on_success
on_success(c) ==
    [c EXCEPT !.failure_count = 0, !.state = "Closed", !.last_failure_time = None]

\* A breaker that opens one failure late (> instead of >=).
on_failure_opens_late(c, t) ==
    LET c1 == [c EXCEPT !.failure_count = @ + 1, !.last_failure_time = Some(t)]
    IN  IF c1.failure_count > c1.threshold
        THEN [c1 EXCEPT !.state = "Open"]
        ELSE IF c1.state = "HalfOpen" THEN [c1 EXCEPT !.state = "Open"] ELSE c1

\* A breaker whose failure in HalfOpen leaves the time of the last failure alone.
on_failure_keeps_time(c, t) ==
    LET c1 == [c EXCEPT !.failure_count = @ + 1,
                        !.last_failure_time =
                            IF c.state = "HalfOpen" THEN @ ELSE Some(t)]
    IN  IF c1.failure_count >= c1.threshold
        THEN [c1 EXCEPT !.state = "Open"]
        ELSE IF c1.state = "HalfOpen" THEN [c1 EXCEPT !.state = "Open"] ELSE c1

\* CircuitBreaker::on_failure, called at time t
on_failure(c, t) ==
    LET c1 == [c EXCEPT !.failure_count = @ + 1, !.last_failure_time = Some(t)]
    IN  IF c1.failure_count >= c1.threshold
        THEN [c1 EXCEPT !.state = "Open"]
        ELSE IF c1.state = "HalfOpen" THEN [c1 EXCEPT !.state = "Open"] ELSE c1

\* a breaker that goes to HalfOpen without waiting for the timeout
try_half_open_at_once(c, t) ==
    IF c.state = "Open" THEN [c EXCEPT !.state = "HalfOpen"] ELSE c

\* CircuitBreaker::try_half_open, called at time t
try_half_open(c, t) ==
    IF c.state = "Open"
    THEN IF c.last_failure_time # None
         THEN IF elapsed(c.last_failure_time[1], t) >= c.timeout
              THEN [c EXCEPT !.state = "HalfOpen"]
              ELSE c
         ELSE c
    ELSE c

(***************************************************************************)
(* SpecCB: one breaker built by CircuitBreaker::new, its four methods      *)
(* called in any order while the clock advances.                           *)
(***************************************************************************)
\* What cbObs records of a call: the method, the state before it, the time of the
\* call, how many on_failure calls were made in a row since construction or
\* since the last on_success, and the time of the last on_failure call.
CbObserve(op) ==
    [op |-> op, prev |-> cb.state, at |-> now,
     streak |-> CASE op = "on_failure" -> cbObs.streak + 1
                  [] op = "on_success" -> 0
                  [] OTHER -> cbObs.streak,
     failAt |-> IF op = "on_failure" THEN now ELSE cbObs.failAt]

CbObsInit == [op |-> "new", prev |-> "Closed", at |-> 0, streak |-> 0, failAt |-> 0]

CbIdle ==
    /\ cb = CircuitBreakerDefault
    /\ cbObs = CbObsInit

InitBreaker ==
    /\ \E threshold \in 0..MaxThreshold, timeout \in 0..MaxTimeout :
           cb = CircuitBreakerNew(threshold, timeout)
    /\ cbObs = CbObsInit

\* time passes
Tick ==
    /\ now < MaxTime
    /\ now' = now + 1
    /\ UNCHANGED cbVars

CallOnFailure ==
    /\ cb.failure_count < MaxFailures
    /\ cb' = on_failure(cb, now)
    /\ cbObs' = CbObserve("on_failure")
    /\ UNCHANGED now

CallOnSuccess ==
    /\ cb' = on_success(cb)
    /\ cbObs' = CbObserve("on_success")
    /\ UNCHANGED now

CallTryHalfOpen ==
    /\ cb' = try_half_open(cb, now)
    /\ cbObs' = CbObserve("try_half_open")
    /\ UNCHANGED now

(***************************************************************************)
(* retry_with_backoff (src/src/utils.rs:124-171)                           *)
(***************************************************************************)
MaxDelayMs == 30000

\* The operation handed to the wrapper: it fails its first failFirst calls
\* (all of them when always is set); the i-th call fails with error i.
OperationResult(op, i) ==
    IF op.always \/ i <= op.failFirst THEN <<"Err", i>> ELSE <<"Ok", 42>>

RtStart(op, max_attempts, initial_delay) ==
    [pc |-> "loop", op |-> op, max_attempts |-> max_attempts,
     attempts |-> 0, delay |-> initial_delay, calls |-> 0, result |-> None]

RtIdle == rt = [RtStart([failFirst |-> 0, always |-> FALSE], 0, 0) EXCEPT !.pc = "idle"]

\* A wrapper that gives up one attempt early.
retry_gives_up(attempts, max_attempts) == attempts + 1 >= max_attempts

\* A wrapper that allows one attempt too many (> instead of >=).
retry_one_more(attempts, max_attempts) == attempts > max_attempts

\* utils.rs:149, the test that ends the loop after a failed attempt
retry_exhausted(attempts, max_attempts) == attempts >= max_attempts

\* One turn of the loop (utils.rs:138-165): count the attempt, invoke the
\* operation, return on Ok, return the error when the attempts are used up,
\* else go to sleep.
RetryAttempt ==
    /\ rt.pc = "loop"
    /\ LET attempts == rt.attempts + 1
           res == OperationResult(rt.op, rt.calls + 1)
       IN  rt' = [rt EXCEPT
                    !.attempts = attempts,
                    !.calls = @ + 1,
                    !.result = IF res[1] = "Ok" \/ retry_exhausted(attempts, rt.max_attempts)
                               THEN Some(res) ELSE None,
                    !.pc = IF res[1] = "Ok" \/ retry_exhausted(attempts, rt.max_attempts)
                           THEN "done" ELSE "sleep"]

\* utils.rs:166-167: sleep(delay), then double the delay up to 30 s
RetrySleep ==
    /\ rt.pc = "sleep"
    /\ rt' = [rt EXCEPT !.delay = Min(rt.delay * 2, MaxDelayMs), !.pc = "loop"]

InitRetry ==
    \E k \in 0..MaxFailFirst, always \in BOOLEAN, m \in 0..MaxAttemptsArg,
       d \in {10, 500, 20000} :
        rt = RtStart([failFirst |-> IF always THEN 0 ELSE k, always |-> always], m, d)

(***************************************************************************)
(* Synthesis cache and backend router (src/src/tts/tts.rs)                 *)
(***************************************************************************)
Backends == {"GCP", "VOICEVOX"}

\* CacheKey: <<backend, text or ssml, voice parameters or speaker>>
Keys == {<<"GCP", "a", "v1">>, <<"VOICEVOX", "a", "1">>}
BackendOf(k) == k[1]

Callers == {"c1", "c2"}

SynthMaxAttempts == 3

SeqSet(q) == {q[i] : i \in 1..Len(q)}
SeqWithout(q, x) == SelectSeq(q, LAMBDA y : y # x)

\* LruCache::get: a hit moves the key to the most recently used place
LruGet(c, k) == IF k \in SeqSet(c) THEN <<k>> \o SeqWithout(c, k) ELSE c

\* LruCache::put: the key becomes the most recently used one; when the cache
\* is full and the key is new, the least recently used key is dropped
LruPut(c, k) ==
    IF k \in SeqSet(c) THEN <<k>> \o SeqWithout(c, k)
    ELSE IF Len(c) >= CacheCap THEN <<k>> \o SubSeq(c, 1, CacheCap - 1)
    ELSE <<k>> \o c

IdleCall == [pc |-> "idle", key |-> None, attempts |-> 0, after |-> FALSE, trial |-> FALSE]

\* keys still counted as served after the cache went from c to c2
StillFresh(c2) == {k \in fresh : k \in SeqSet(cache) => k \in SeqSet(c2)}

TtsIdle ==
    /\ cache = <<>>
    /\ breaker = [b \in Backends |-> CircuitBreakerDefault]
    /\ call = [p \in Callers |-> IdleCall]
    /\ tasks = {}
    /\ original_api_url = TRUE
    /\ fresh = {}

\* TTS::new (tts.rs:51-70); load_cache puts nothing into the cache (tts.rs:295-329)
InitTTS ==
    /\ cache = <<>>
    /\ breaker = [b \in Backends |-> CircuitBreakerDefault]
    /\ call = [p \in Callers |-> IdleCall]
    /\ tasks = {}
    /\ original_api_url \in BOOLEAN
    /\ fresh = {}

\* a lookup that never finds the key
cache_get_none(c, k) == FALSE

\* tts.rs:85 and 196: whether cache.get(&key) finds the key
cache_get(c, k) == k \in SeqSet(c)

\* tts.rs:83-98 and 191-209: the cache lookup that opens a call. A hit returns
\* the cached audio at once; a miss goes on to the breaker.
Lookup(p, k) ==
    /\ call[p].pc = "idle"
    /\ breaker[BackendOf(k)].failure_count < MaxTtsFailures
    /\ cache' = LruGet(cache, k)
    /\ IF cache_get(cache, k)
       THEN /\ call' = call
            /\ fresh' = fresh \cup {k}
       ELSE /\ call' = [call EXCEPT ![p] =
                          [IdleCall EXCEPT !.pc = "miss", !.key = k, !.after = (k \in fresh)]]
            /\ fresh' = fresh
    /\ UNCHANGED <<now, breaker, tasks, original_api_url>>

\* tts.rs:100-108 and 211-219: try_half_open, then can_execute; a refused
\* call returns the "circuit breaker is open" error
CheckBreaker(p) ==
    /\ call[p].pc = "miss"
    /\ LET b == BackendOf(call[p].key)
           c == try_half_open(breaker[b], now)
       IN  /\ breaker' = [breaker EXCEPT ![b] = c]
           /\ call' = [call EXCEPT ![p] =
                         IF can_execute(c, now)
                         THEN [@ EXCEPT !.pc = "retry", !.trial = (c.state = "HalfOpen")]
                         ELSE IdleCall]
    /\ UNCHANGED <<now, cache, tasks, original_api_url, fresh>>

\* tts.rs:110-150 and 227-241: one turn of the retry loop around the backend's
\* network call. The stream branch of VOICEVOX (no original_api_url) turns
\* every answer of the backend into an error (tts.rs:137-139).
Attempt(p, answer) ==
    /\ call[p].pc = "retry"
    /\ LET attempts == call[p].attempts + 1
           ok == answer /\ (BackendOf(call[p].key) = "GCP" \/ original_api_url)
       IN  call' = [call EXCEPT ![p] =
                      [@ EXCEPT !.attempts = attempts,
                                !.pc = IF ok THEN "got"
                                       ELSE IF retry_exhausted(attempts, SynthMaxAttempts)
                                            THEN "failed" ELSE "retry"]]
    /\ UNCHANGED <<now, cache, breaker, tasks, original_api_url, fresh>>

\* tts.rs:175-183 and 245-253: the retries are used up; on_failure, return Err
RecordFailure(p) ==
    /\ call[p].pc = "failed"
    /\ breaker' = [breaker EXCEPT ![BackendOf(call[p].key)] = on_failure(@, now)]
    /\ call' = [call EXCEPT ![p] = IdleCall]
    /\ UNCHANGED <<now, cache, tasks, original_api_url, fresh>>

\* tts.rs:257-261 (GCP): on_success, then on to the compression.
\* tts.rs:153-173 (VOICEVOX): on_success, spawn the task that compresses and
\* caches the audio, return Ok without waiting for it.
RecordSuccess(p) ==
    /\ call[p].pc = "got"
    /\ breaker' = [breaker EXCEPT ![BackendOf(call[p].key)] = on_success(@)]
    /\ IF BackendOf(call[p].key) = "GCP"
       THEN /\ call' = [call EXCEPT ![p].pc = "compress"]
            /\ UNCHANGED <<tasks, fresh>>
       ELSE /\ call' = [call EXCEPT ![p] = IdleCall]
            /\ tasks' = tasks \cup {call[p].key}
            /\ fresh' = fresh \cup {call[p].key}
    /\ UNCHANGED <<now, cache, original_api_url>>

\* tts.rs:263-291 (GCP): Compressed::new; on Ok put the key and return Ok, on
\* Err return the compression error and cache nothing
Compress(p, ok) ==
    /\ call[p].pc = "compress"
    /\ IF ok
       THEN /\ cache' = LruPut(cache, call[p].key)
            /\ fresh' = StillFresh(LruPut(cache, call[p].key)) \cup {call[p].key}
       ELSE UNCHANGED <<cache, fresh>>
    /\ call' = [call EXCEPT ![p] = IdleCall]
    /\ UNCHANGED <<now, breaker, tasks, original_api_url>>

\* tts.rs:163-171: the spawned task; the key is cached only if Compressed::new
\* succeeds
CacheTask(k, ok) ==
    /\ k \in tasks
    /\ tasks' = tasks \ {k}
    /\ IF ok
       THEN /\ cache' = LruPut(cache, k)
            /\ fresh' = StillFresh(LruPut(cache, k))
       ELSE UNCHANGED <<cache, fresh>>
    /\ UNCHANGED <<now, breaker, call, original_api_url>>

\* time passes, half a breaker timeout at a time
TickTTS ==
    /\ now < MaxTtsTicks * (DefaultTimeoutSecs \div 2)
    /\ now' = now + (DefaultTimeoutSecs \div 2)
    /\ UNCHANGED ttsVars

(***************************************************************************)
(* One utterance: Message::synthesize (src/src/implement/message.rs:       *)
(* 111-196) around synthesize_gcp / synthesize_voicevox                    *)
(***************************************************************************)
\* the handler that reads the utterance
Reader == "c1"

\* max_attempts of the retry_with_backoff in Message::synthesize
MessageMaxAttempts == 3

NoCheck == [kind |-> "none"]
NoLast == [kind |-> "none"]

UtterStart ==
    [pc |-> "idle", key |-> None, attempts |-> 0, invocations |-> 0, count0 |-> 0,
     check |-> NoCheck, last |-> NoLast]

UtterIdle == utter = UtterStart

\* message.rs:149-172 and 176-185 after a call that returned Err: the wrapper
\* returns the error when its attempts are used up (utils.rs:149), which
\* Message::synthesize turns into no track (message.rs:191-194); else it
\* sleeps and calls again
OuterErr(u) ==
    [u EXCEPT !.pc = IF retry_exhausted(u.attempts, MessageMaxAttempts)
                     THEN "silence" ELSE "loop"]

\* whether breaker c is Open at time t with its timeout not yet elapsed
OpenAt(c, t) ==
    /\ c.state = "Open"
    /\ c.last_failure_time # None
    /\ elapsed(c.last_failure_time[1], t) < c.timeout

\* one turn of the wrapper's loop in Message::synthesize: the next call of
\* synthesize_gcp / synthesize_voicevox, up to its cache lookup. The first
\* turn opens a new utterance.
UtterCall(k) ==
    /\ \/ utter.pc \in {"idle", "audio", "silence"}
       \/ utter.pc = "loop" /\ utter.key = Some(k)
    /\ Lookup(Reader, k)
    /\ LET u == IF utter.pc = "loop" THEN utter
                ELSE [UtterStart EXCEPT !.key = Some(k)]
       IN  utter' = [u EXCEPT !.attempts = @ + 1,
                              !.count0 = breaker[BackendOf(k)].failure_count,
                              !.check = NoCheck,
                              !.pc = IF cache_get(cache, k) THEN "audio" ELSE "call"]

\* the call's breaker check (tts.rs:100-108, 211-219) and what it did
UtterCheck ==
    /\ utter.pc = "call"
    /\ CheckBreaker(Reader)
    /\ LET refused == call'[Reader].pc = "idle"
           u == [utter EXCEPT !.check =
                    [kind |-> "check",
                     open |-> OpenAt(breaker[BackendOf(utter.key[1])], now),
                     refused |-> refused,
                     same |-> breaker' = breaker /\ cache' = cache]]
       IN  utter' = IF refused THEN OuterErr(u) ELSE u

\* one invocation of the backend's network call inside the call's retry loop
UtterBackend(answer) ==
    /\ utter.pc = "call"
    /\ Attempt(Reader, answer)
    /\ utter' = [utter EXCEPT !.invocations = @ + 1]

\* the call's retries are used up: on_failure, Err
UtterFailed ==
    /\ utter.pc = "call"
    /\ RecordFailure(Reader)
    /\ utter' = [OuterErr(utter) EXCEPT !.last =
                    [kind |-> "failed", k |-> call[Reader].attempts,
                     raised |-> breaker'[BackendOf(utter.key[1])].failure_count
                                - utter.count0]]

\* the backend answered: on_success; VOICEVOX returns the track at once
UtterGot ==
    /\ utter.pc = "call"
    /\ RecordSuccess(Reader)
    /\ utter' = [utter EXCEPT !.last = [kind |-> "got", k |-> call[Reader].attempts,
                                        raised |-> 0],
                              !.pc = IF BackendOf(utter.key[1]) = "GCP"
                                     THEN "call" ELSE "audio"]

\* GCP: the compression; its error is the call's error (tts.rs:284-290)
UtterCompress(ok) ==
    /\ utter.pc = "call"
    /\ Compress(Reader, ok)
    /\ utter' = IF ok THEN [utter EXCEPT !.pc = "audio"] ELSE OuterErr(utter)

(***************************************************************************)
(* Session registry, durable storage and connection monitor                *)
(* (src/src/commands, src/src/events/voice_state_update.rs,                *)
(*  src/src/connection_monitor.rs, src/src/database/database.rs)           *)
(***************************************************************************)
Guilds == {"g1", "g2"}

MAX_RECONNECTION_ATTEMPTS == 3

\* HashMap operations on functions with a finite domain
Insert(m, k, v) == [x \in DOMAIN m \cup {k} |-> IF x = k THEN v ELSE m[x]]
Remove(m, k) == [x \in DOMAIN m \ {k} |-> m[x]]

\* TTSInstance::new (instance.rs:25-32)
TTSInstanceNew(text_channels, voice_channel, guild) ==
    [before_message |-> None, text_channels |-> text_channels,
     voice_channel |-> voice_channel, guild |-> guild]

\* serde_json::to_string of a TTSInstance: before_message is skipped (instance.rs:14-21)
Serialize(instance) ==
    [text_channels |-> instance.text_channels,
     voice_channel |-> instance.voice_channel, guild |-> instance.guild]

\* what the store did with a save: everything, nothing (set_config failed), or
\* the record without the set entry (sadd failed)
SaveOutcomes == {"ok", "set_err", "sadd_err"}

\* what the store did with a remove: everything, nothing (no pooled
\* connection), or the record without the set entry (srem failed, its result
\* is dropped)
RemoveOutcomes == {"ok", "pool_err", "srem_lost"}

\* the store answers with a fault only while fewer than MaxDbFaults have happened
Allowed(o) == o = "ok" \/ dbFaults < MaxDbFaults

\* ops after a handler of the given kinds has run
Noted(kinds, faulted) == IF faulted \/ dbFaults > 0 THEN {} ELSE ops \cup kinds

\* Database::save_tts_instance (database.rs:190-207)
save_tts_instance(d, guild_id, instance, o) ==
    IF o = "set_err" THEN d
    ELSE IF o = "sadd_err"
         THEN [d EXCEPT !.blob = Insert(@, guild_id, Serialize(instance))]
         ELSE [blob |-> Insert(d.blob, guild_id, Serialize(instance)),
               list |-> d.list \cup {guild_id}]

\* a remove that forgets the set of active instances
remove_keeps_list(d, guild_id, o) ==
    IF o = "pool_err" THEN d ELSE [d EXCEPT !.blob = Remove(@, guild_id)]

\* Database::remove_tts_instance (database.rs:221-232)
remove_tts_instance(d, guild_id, o) ==
    IF o = "pool_err" THEN d
    ELSE [blob |-> Remove(d.blob, guild_id),
          list |-> IF o = "srem_lost" THEN d.list ELSE d.list \ {guild_id}]

\* songbird: Songbird::join makes the call handle, then connects; the handle
\* stays when the connection fails
Join(c, guild_id, ok) == [c EXCEPT ![guild_id] = IF ok THEN "connected" ELSE "handle"]

\* songbird: Songbird::remove leaves and drops the call handle
Leave(c, guild_id) == [c EXCEPT ![guild_id] = "none"]

\* connection_monitor.rs:102-111 and instance.rs:66-85
is_connected(guild_id) == calls[guild_id] = "connected"

\* the observation of a run that is not watched
EvOff == [kind |-> "off"]

\* whether the handlers' observations are kept in this run
Watched == ev.kind # "off"

\* ev after a handler that observed rec
Obs(rec) == IF Watched THEN rec ELSE ev

RegIdle ==
    /\ storage = <<>>
    /\ database = [blob |-> <<>>, list |-> {}]
    /\ calls = [g \in Guilds |-> "none"]
    /\ reconnection_attempts = <<>>
    /\ streak = [g \in Guilds |-> 0]
    /\ occ = [g \in Guilds |-> 0]
    /\ dbFaults = 0
    /\ ops = {}
    /\ ev = EvOff

\* main.rs: an empty registry, an empty monitor; the store holds no session
InitRegistry == RegIdle

\* what a setup command is given: the mode option, the channel it is sent in
\* (which the modes NEW_THREAD and VOICE_CHANNEL do not look at), whether the
\* thread of NEW_THREAD can be created, whether the response gets through
\* and, if it does, whether the voice join works
SetupInputs ==
    {in \in [mode : {"TEXT_CHANNEL", "NEW_THREAD", "VOICE_CHANNEL", "OTHER"},
             cmdCh : {"T", "V"}, threadOk : BOOLEAN, respondOk : BOOLEAN,
             joinOk : BOOLEAN] :
        /\ in.mode \in {"NEW_THREAD", "VOICE_CHANNEL"} => in.cmdCh = "T"
        /\ ~in.threadOk => in.mode = "NEW_THREAD" /\ ~in.respondOk
        /\ ~in.respondOk => ~in.joinOk}

\* commands/setup.rs:62-155. The invoking user is in the voice channel "V";
\* the command is sent in cmdCh. responded: create_response was called.
Setup(g) ==
    /\ occ[g] >= 1
    /\ \/ /\ g \in DOMAIN storage                       \* setup.rs:72-82
          /\ ev' = Obs([kind |-> "setup", g |-> g, had |-> TRUE, responded |-> TRUE])
          /\ UNCHANGED <<storage, database, dbFaults, calls, ops>>
       \/ /\ g \notin DOMAIN storage
          /\ \E in \in SetupInputs, o \in SaveOutcomes :
              LET mode == in.mode
                  cmdCh == in.cmdCh
                  respondOk == in.respondOk
                  joinOk == in.joinOk
                  text_channel_ids ==
                      CASE mode = "TEXT_CHANNEL" -> <<cmdCh>>
                        [] mode = "NEW_THREAD" -> <<"Th">>
                        [] mode = "VOICE_CHANNEL" -> <<"V">>
                        [] OTHER -> IF "V" # cmdCh THEN <<cmdCh, "V">> ELSE <<"V">>
                  instance == TTSInstanceNew(text_channel_ids, "V", g)
              IN  IF ~in.threadOk                       \* create_thread(..).unwrap(), setup.rs:91-96
                  THEN /\ o = "ok"
                       /\ ev' = Obs([kind |-> "setup", g |-> g, had |-> FALSE,
                                     responded |-> FALSE])
                       /\ UNCHANGED <<storage, database, dbFaults, calls, ops>>
                  ELSE /\ Allowed(o)
                       /\ storage' = Insert(storage, g, instance)
                       /\ database' = save_tts_instance(database, g, instance, o)
                       /\ dbFaults' = IF o = "ok" THEN dbFaults ELSE dbFaults + 1
                       /\ calls' = IF respondOk THEN Join(calls, g, joinOk) ELSE calls
                       /\ ops' = Noted({"setup"}, o # "ok")
                       /\ ev' = Obs([kind |-> "setup", g |-> g, had |-> FALSE,
                                     responded |-> TRUE])
    /\ UNCHANGED <<reconnection_attempts, streak, occ>>

\* commands/stop.rs:64-108. The invoking user is in some voice channel.
Stop(g) ==
    /\ \/ /\ g \notin DOMAIN storage                    \* stop.rs:67-79
          /\ ev' = Obs([kind |-> "stop", g |-> g, had |-> FALSE, responded |-> TRUE])
          /\ UNCHANGED <<storage, database, dbFaults, calls, ops>>
       \/ /\ g \in DOMAIN storage
          /\ \E o \in RemoveOutcomes :
              /\ Allowed(o)
              /\ storage' = Remove(storage, g)
              /\ database' = remove_tts_instance(database, g, o)
              /\ dbFaults' = IF o = "ok" THEN dbFaults ELSE dbFaults + 1
              /\ calls' = Leave(calls, g)
              /\ ops' = Noted({"stop"}, o # "ok")
              /\ ev' = Obs([kind |-> "stop", g |-> g, had |-> TRUE, responded |-> TRUE])
    /\ UNCHANGED <<reconnection_attempts, streak, occ>>

\* commands/skip.rs:58-89 and TTSInstance::skip (instance.rs:180-186). The
\* invoking user is in some voice channel. skip takes the guild's call handle
\* with manager.get(..).unwrap() before the response is made.
Skip(g) ==
    /\ ev' = Obs([kind |-> "skip", g |-> g, had |-> g \in DOMAIN storage,
                  responded |-> g \notin DOMAIN storage \/ calls[g] # "none"])
    /\ UNCHANGED <<storage, database, calls, reconnection_attempts, streak, occ, dbFaults, ops>>

\* what the outside world answers inside one reconnect: the join, and the
\* occupancy lookup made after it ("err": the channel list or the member list
\* cannot be had, or the voice channel is not in the list)
ReconnectInputs == [join : {"ok", "fail"}, lookup : {"ok", "err"}]

\* a reconnect that joins whether or not the guild is connected
reconnect_rejoins(c, instance, skip_check, users, in) ==
    [result |-> IF in.join = "ok" THEN "ok" ELSE "err",
     calls |-> Join(c, instance.guild, in.join = "ok"), joins |-> 1, leaves |-> 0]

\* a reconnect that stays in a voice channel it finds empty
reconnect_stays(c, instance, skip_check, users, in) ==
    IF c[instance.guild] = "connected"
    THEN [result |-> "ok", calls |-> c, joins |-> 0, leaves |-> 0]
    ELSE [result |-> IF in.join = "ok" THEN "ok" ELSE "err",
          calls |-> Join(c, instance.guild, in.join = "ok"), joins |-> 1, leaves |-> 0]

\* TTSInstance::reconnect (instance.rs:89-154) with the call handles c and
\* users users in the instance's voice channel: the result, the call handles
\* afterwards, the joins and leaves issued. skip_check is not read.
reconnect(c, instance, skip_check, users, in) ==
    IF c[instance.guild] = "connected"                  \* check_connection
    THEN [result |-> "ok", calls |-> c, joins |-> 0, leaves |-> 0]
    ELSE IF in.join = "fail"
    THEN [result |-> "err", calls |-> Join(c, instance.guild, FALSE),
          joins |-> 1, leaves |-> 0]
    ELSE IF in.lookup = "ok" /\ users = 0
    THEN [result |-> "err", calls |-> Leave(Join(c, instance.guild, TRUE), instance.guild),
          joins |-> 1, leaves |-> 1]
    ELSE [result |-> "ok", calls |-> Join(c, instance.guild, TRUE),
          joins |-> 1, leaves |-> 0]

\* the answers the outside world gives the monitor while it audits one guild:
\* the occupancy query, the join inside reconnect ("left": the join worked but
\* the last user was gone when reconnect looked again), the store's remove
AuditInputs ==
    [check : {"ok", "err"}, join : {"ok", "fail", "left"}, db : RemoveOutcomes]

NoInput == [check |-> "ok", join |-> "ok", db |-> "ok"]

Attempts(g) == IF g \in DOMAIN reconnection_attempts THEN reconnection_attempts[g] ELSE 0

\* an audit that goes on counting a failed reconnection at the cap and leaves
\* the eviction to the next tick
audit_counts_on(g, in) ==
    IF is_connected(g)
    THEN [evict |-> FALSE, call |-> calls[g], attempts |-> Attempts(g), occ |-> occ[g],
          reconnect |-> "none"]
    ELSE IF in.check = "ok" /\ occ[g] > 0
    THEN IF Attempts(g) >= MAX_RECONNECTION_ATTEMPTS
         THEN [evict |-> TRUE, call |-> calls[g], attempts |-> 0, occ |-> occ[g],
               reconnect |-> "none"]
         ELSE LET users == IF in.join = "left" THEN 0 ELSE occ[g]
                  r == reconnect(calls, storage[g], TRUE, users,
                                 [join |-> IF in.join = "fail" THEN "fail" ELSE "ok",
                                  lookup |-> "ok"])
              IN  IF r.result = "ok"
                  THEN [evict |-> FALSE, call |-> r.calls[g], attempts |-> 0,
                        occ |-> users, reconnect |-> "ok"]
                  ELSE [evict |-> FALSE, call |-> r.calls[g],
                        attempts |-> Attempts(g) + 1, occ |-> users, reconnect |-> "err"]
    ELSE [evict |-> TRUE, call |-> calls[g], attempts |-> 0, occ |-> occ[g],
          reconnect |-> "none"]

\* an audit that leaves the counter of a guild it evicts for an empty channel
audit_keeps_count(g, in) ==
    IF is_connected(g)
    THEN [evict |-> FALSE, call |-> calls[g], attempts |-> Attempts(g), occ |-> occ[g],
          reconnect |-> "none"]
    ELSE IF in.check = "ok" /\ occ[g] > 0
    THEN IF Attempts(g) >= MAX_RECONNECTION_ATTEMPTS
         THEN [evict |-> TRUE, call |-> calls[g], attempts |-> 0, occ |-> occ[g],
               reconnect |-> "none"]
         ELSE LET users == IF in.join = "left" THEN 0 ELSE occ[g]
                  r == reconnect(calls, storage[g], TRUE, users,
                                 [join |-> IF in.join = "fail" THEN "fail" ELSE "ok",
                                  lookup |-> "ok"])
              IN  IF r.result = "ok"
                  THEN [evict |-> FALSE, call |-> r.calls[g], attempts |-> 0,
                        occ |-> users, reconnect |-> "ok"]
                  ELSE [evict |-> Attempts(g) + 1 >= MAX_RECONNECTION_ATTEMPTS,
                        call |-> r.calls[g],
                        attempts |-> IF Attempts(g) + 1 >= MAX_RECONNECTION_ATTEMPTS
                                     THEN 0 ELSE Attempts(g) + 1,
                        occ |-> users, reconnect |-> "err"]
    ELSE [evict |-> TRUE, call |-> calls[g], attempts |-> Attempts(g), occ |-> occ[g],
          reconnect |-> "none"]

\* connection_monitor.rs:96-208, one turn of the loop: what the audit of guild
\* g decides, given the world's answers
Audit(g, in) ==
    IF is_connected(g)
    THEN [evict |-> FALSE, call |-> calls[g], attempts |-> Attempts(g), occ |-> occ[g],
          reconnect |-> "none"]
    ELSE IF in.check = "ok" /\ occ[g] > 0
    THEN IF Attempts(g) >= MAX_RECONNECTION_ATTEMPTS
         THEN [evict |-> TRUE, call |-> calls[g], attempts |-> 0, occ |-> occ[g],
               reconnect |-> "none"]
         ELSE LET users == IF in.join = "left" THEN 0 ELSE occ[g]
                  r == reconnect(calls, storage[g], TRUE, users,
                                 [join |-> IF in.join = "fail" THEN "fail" ELSE "ok",
                                  lookup |-> "ok"])
              IN  IF r.result = "ok"
                  THEN [evict |-> FALSE, call |-> r.calls[g], attempts |-> 0,
                        occ |-> users, reconnect |-> "ok"]
                  ELSE [evict |-> Attempts(g) + 1 >= MAX_RECONNECTION_ATTEMPTS,
                        call |-> r.calls[g],
                        attempts |-> IF Attempts(g) + 1 >= MAX_RECONNECTION_ATTEMPTS
                                     THEN 0 ELSE Attempts(g) + 1,
                        occ |-> users, reconnect |-> "err"]
    ELSE [evict |-> TRUE, call |-> calls[g], attempts |-> 0, occ |-> occ[g],
          reconnect |-> "none"]

\* the answers that matter for guild g in this tick
InputsOf(g) ==
    IF g \in DOMAIN storage /\ ~is_connected(g)
    THEN {in \in AuditInputs :
            /\ Allowed(in.db)
            /\ (in.check = "ok" /\ occ[g] > 0) \/ in.join = "ok"   \* no join is tried
            /\ Audit(g, in).evict \/ in.db = "ok"                  \* no remove is issued
            /\ in.join = "left" => occ[g] = 1}
    ELSE {NoInput}

\* one answer record per guild
RECURSIVE TickChoices(_)
TickChoices(gs) ==
    IF gs = {} THEN {<<>>}
    ELSE LET g == CHOOSE x \in gs : TRUE
         IN  {Insert(f, g, in) : f \in TickChoices(gs \ {g}), in \in InputsOf(g)}

\* removals that stop at the first one the store fails
RECURSIVE remove_until_error(_, _, _)
remove_until_error(d, gs, in) ==
    IF gs = {} THEN d
    ELSE LET g == CHOOSE x \in gs : TRUE
         IN  IF in[g].db = "pool_err" THEN d
             ELSE remove_until_error(remove_tts_instance(d, g, in[g].db), gs \ {g}, in)

\* connection_monitor.rs:211-228: the removals from the store, guild by guild
RECURSIVE RemoveAll(_, _, _)
RemoveAll(d, gs, in) ==
    IF gs = {} THEN d
    ELSE LET g == CHOOSE x \in gs : TRUE
         IN  RemoveAll(remove_tts_instance(d, g, in[g].db), gs \ {g}, in)

\* what the monitor saw of guild g in a tick: the connection, the occupancy
\* query's answer ("skipped": not asked), the failed reconnections counted
\* before the tick, and what the reconnect it tried returned
Seen(g, in) ==
    [connected |-> is_connected(g),
     empty |-> occ[g] = 0,
     has_users |-> IF is_connected(g) THEN "skipped"
                   ELSE IF in.check = "err" THEN "err"
                   ELSE IF occ[g] > 0 THEN "yes" ELSE "no",
     attempts |-> Attempts(g),
     streak |-> streak[g],
     reconnect |-> Audit(g, in).reconnect]

\* whether the audit of guild g met a failure: the occupancy query or the
\* reconnection returned an error
AuditFailed(g, in) ==
    /\ g \in DOMAIN storage
    /\ ~is_connected(g)
    /\ in.check = "err" \/ Audit(g, in).reconnect = "err"

\* a loop that ends at the first guild whose audit meets a failure
audited_until_failure(in) ==
    {g \in DOMAIN storage :
        \A h \in DOMAIN storage : (h = "g1" /\ g = "g2") => ~AuditFailed(h, in[h])}

\* connection_monitor.rs:96-209: the guilds the loop visits, every entry of the
\* registry; nothing in the loop's body leaves it early but the lookup of the
\* voice manager (line 100), which is registered at startup
Audited(in) == DOMAIN storage

\* ConnectionMonitor::check_connections (connection_monitor.rs:70-231), one
\* tick, run under the registry's write lock
MonitorTick ==
    /\ DOMAIN storage # {}
    /\ \E in \in TickChoices(Guilds) :
        LET audited == Audited(in)
            guilds_to_remove == {g \in audited : Audit(g, in[g]).evict}
            faults == Cardinality({g \in guilds_to_remove : in[g].db # "ok"})
            counted == {g \in Guilds :
                          IF g \in audited /\ ~is_connected(g)
                          THEN Audit(g, in[g]).attempts > 0
                          ELSE g \in DOMAIN reconnection_attempts}
        IN  /\ dbFaults + faults <= MaxDbFaults
            /\ storage' = [g \in DOMAIN storage \ guilds_to_remove |-> storage[g]]
            /\ database' = RemoveAll(database, guilds_to_remove, in)
            /\ dbFaults' = dbFaults + faults
            /\ calls' = [g \in Guilds |->
                           IF g \in guilds_to_remove THEN "none"
                           ELSE IF g \in audited THEN Audit(g, in[g]).call
                           ELSE calls[g]]
            /\ reconnection_attempts' =
                   [g \in counted |-> IF g \in audited /\ ~is_connected(g)
                                      THEN Audit(g, in[g]).attempts
                                      ELSE reconnection_attempts[g]]
            /\ occ' = [g \in Guilds |-> IF g \in audited THEN Audit(g, in[g]).occ ELSE occ[g]]
            /\ ops' = Noted(IF guilds_to_remove # {} THEN {"evict"} ELSE {}, faults > 0)
            /\ streak' = [g \in Guilds |->
                            IF g \in guilds_to_remove THEN 0
                            ELSE IF g \notin audited THEN streak[g]
                            ELSE CASE Audit(g, in[g]).reconnect = "err" -> streak[g] + 1
                                   [] Audit(g, in[g]).reconnect = "ok" -> 0
                                   [] OTHER -> streak[g]]
            /\ ev' = Obs([kind |-> "tick", registry |-> DOMAIN storage,
                          evicted |-> guilds_to_remove,
                          db |-> [g \in guilds_to_remove |-> in[g].db],
                          result |-> "ok",
                          seen |-> [g \in audited |-> Seen(g, in[g])]])

\* the server configuration the handler reads on a join: the announce toggle
\* and whether "V" is the autostart channel (looked at only when the toggle
\* is on and the guild has no session)
VoiceJoinInputs(g) ==
    {in \in [voice_state_announce : BOOLEAN, autostart : BOOLEAN] :
        \/ Watched
        \/ in.autostart => in.voice_state_announce /\ g \notin DOMAIN storage}

\* on a leave: the announce toggle and whether the announcement's synthesis
\* works (tried only when the toggle is on and the guild has a session)
VoiceLeaveInputs(g) ==
    {in \in [voice_state_announce : BOOLEAN, synthOk : BOOLEAN] :
        ~in.synthOk => in.voice_state_announce /\ g \in DOMAIN storage}

\* TTSInstance::read (instance.rs:163-177) of an announcement, with
\* AnnounceMessage::synthesize (tts/message.rs:42-75): how many tracks it
\* enqueues and whether it returns. The synthesis result is unwrapped
\* (tts/message.rs:63) and so is the guild's call handle (instance.rs:171).
read_announce(synthOk, c, guild) ==
    IF ~synthOk THEN [enqueued |-> 0, returned |-> FALSE]
    ELSE IF c[guild] = "none" THEN [enqueued |-> 0, returned |-> FALSE]
    ELSE [enqueued |-> 1, returned |-> TRUE]

\* events/voice_state_update.rs:15-121: a user who is not a bot joins the voice
\* channel "V" of guild g
VoiceJoin(g) ==
    /\ occ[g] < MaxUsers
    /\ occ' = [occ EXCEPT ![g] = @ + 1]
    /\ \E in \in VoiceJoinInputs(g) :
        /\ ev' = Obs([kind |-> "join", g |-> g, had |-> g \in DOMAIN storage,
                      voice_state_announce |-> in.voice_state_announce,
                      autostart |-> in.autostart])
        /\ IF in.voice_state_announce /\ g \notin DOMAIN storage /\ in.autostart
           THEN \E autostart_text \in BOOLEAN, o \in SaveOutcomes, joinOk \in BOOLEAN :
                LET instance ==
                        TTSInstanceNew(IF autostart_text THEN <<"T", "V">> ELSE <<"V">>, "V", g)
                IN  /\ Allowed(o)
                    /\ storage' = Insert(storage, g, instance)
                    /\ database' = save_tts_instance(database, g, instance, o)
                    /\ dbFaults' = IF o = "ok" THEN dbFaults ELSE dbFaults + 1
                    /\ calls' = Join(calls, g, joinOk)
                    /\ ops' = Noted({}, o # "ok")
           ELSE UNCHANGED <<storage, database, dbFaults, calls, ops>>
    /\ UNCHANGED <<reconnection_attempts, streak>>

\* events/voice_state_update.rs:123-186: a user who is not a bot leaves voice
\* from the channel "V" of guild g. The announcement is read first; the
\* handler goes on only when read returns.
VoiceLeave(g) ==
    /\ occ[g] >= 1
    /\ occ' = [occ EXCEPT ![g] = @ - 1]
    /\ \E in \in VoiceLeaveInputs(g) :
        LET reads == in.voice_state_announce /\ g \in DOMAIN storage
            r == read_announce(in.synthOk, calls, g)
        IN  /\ ev' = Obs([kind |-> "leave", g |-> g, reads |-> reads,
                          synthOk |-> in.synthOk,
                          had_handle |-> calls[g] # "none",
                          enqueued |-> IF reads THEN r.enqueued ELSE 0,
                          returned |-> reads /\ r.returned])
            /\ IF reads /\ r.returned /\ occ[g] - 1 = 0
               THEN \E o \in RemoveOutcomes :
                    /\ Allowed(o)
                    /\ storage' = Remove(storage, g)
                    /\ database' = remove_tts_instance(database, g, o)
                    /\ dbFaults' = IF o = "ok" THEN dbFaults ELSE dbFaults + 1
                    /\ calls' = Leave(calls, g)
                    /\ ops' = Noted({}, o # "ok")
               ELSE UNCHANGED <<storage, database, dbFaults, calls, ops>>
    /\ UNCHANGED <<reconnection_attempts, streak>>

\* the voice transport loses the connection of guild g; the call handle stays
Disconnect(g) ==
    /\ calls[g] = "connected"
    /\ calls' = [calls EXCEPT ![g] = "handle"]
    /\ ev' = Obs([kind |-> "disconnect", g |-> g])
    /\ UNCHANGED <<storage, database, reconnection_attempts, streak, occ, dbFaults, ops>>

\* TTSInstance::reconnect (instance.rs:89-154) called on the session of guild
\* g with either value of skip_check
CallReconnect(g) ==
    /\ g \in DOMAIN storage
    /\ \E skip_check \in BOOLEAN, in \in ReconnectInputs :
        LET r == reconnect(calls, storage[g], skip_check, occ[g], in)
        IN  /\ calls' = r.calls
            /\ ev' = Obs([kind |-> "reconnect", g |-> g, skip_check |-> skip_check,
                          was_connected |-> is_connected(g), users |-> occ[g],
                          join |-> in.join, lookup |-> in.lookup,
                          result |-> r.result, joins |-> r.joins, leaves |-> r.leaves,
                          again |-> ev.kind = "reconnect" /\ ev.g = g /\ ev.was_connected])
    /\ UNCHANGED <<storage, database, reconnection_attempts, streak, occ, dbFaults, ops>>

(***************************************************************************)
(* The persisted session (src/src/database/database.rs:190-217)            *)
(***************************************************************************)
\* a deserialization that keeps the first text channel only
deserialize_first_text_channel(json) ==
    [before_message |-> None, text_channels |-> <<json.text_channels[1]>>,
     voice_channel |-> json.voice_channel, guild |-> json.guild]

\* serde_json::from_str of a TTSInstance: before_message is skipped and gets
\* its default (instance.rs:14-21)
Deserialize(json) ==
    [before_message |-> None, text_channels |-> json.text_channels,
     voice_channel |-> json.voice_channel, guild |-> json.guild]

\* Database::load_tts_instance (database.rs:211-217) with get_config
\* (database.rs:65-85): Err without a pooled connection, else the record
LoadOutcomes == {"ok", "pool_err"}

load_tts_instance(d, guild_id, o) ==
    IF o = "pool_err" THEN [ok |-> FALSE, value |-> None]
    ELSE IF guild_id \in DOMAIN d.blob
    THEN [ok |-> TRUE, value |-> Some(Deserialize(d.blob[guild_id]))]
    ELSE [ok |-> TRUE, value |-> None]

\* the messages a session may hold as before_message
Messages == [author : {"u1", "u2"}, content : {<<"hello">>, <<"w", "http://x">>},
             attachments : 0..1]

\* the sessions a guild may have
InstancesOf(g) ==
    [before_message : {None} \cup {Some(m) : m \in Messages},
     text_channels : {<<"T">>, <<"V">>, <<"Th">>, <<"T", "V">>},
     voice_channel : {"V"}, guild : {g}]

\* Database::save_tts_instance called for the session of guild g
SaveInstance(g) ==
    /\ g \in DOMAIN storage
    /\ \E o \in SaveOutcomes :
        /\ Allowed(o)
        /\ database' = save_tts_instance(database, g, storage[g], o)
        /\ dbFaults' = IF o = "ok" THEN dbFaults ELSE dbFaults + 1
        /\ ev' = Obs([kind |-> "save", g |-> g, ok |-> o = "ok"])
    /\ UNCHANGED <<storage, calls, reconnection_attempts, streak, occ, ops>>

\* Database::load_tts_instance called for guild g. saved: the call before was
\* a save of this guild that returned Ok.
LoadInstance(g) ==
    /\ \E o \in LoadOutcomes :
        /\ Allowed(o)
        /\ dbFaults' = IF o = "ok" THEN dbFaults ELSE dbFaults + 1
        /\ ev' = Obs([kind |-> "load", g |-> g,
                      saved |-> ev.kind = "save" /\ ev.g = g /\ ev.ok,
                      loaded |-> load_tts_instance(database, g, o)])
    /\ UNCHANGED <<storage, database, calls, reconnection_attempts, streak, occ, ops>>

(***************************************************************************)
(* Restoration at startup (src/src/events/ready.rs:47-154,                 *)
(* src/src/database/database.rs:236-255)                                   *)
(***************************************************************************)
\* what the outside world answers while one listed guild is restored: the
\* load of its record, the occupancy lookup ("err": the channel list or the
\* member list cannot be had, or the voice channel is gone), the join inside
\* reconnect ("left": the last user was gone when reconnect looked again),
\* the store's remove
RestoreInputs ==
    [load : LoadOutcomes, lookup : {"ok", "err"}, join : {"ok", "fail", "left"},
     db : RemoveOutcomes]

NoRestoreInput == [load |-> "ok", lookup |-> "ok", join |-> "ok", db |-> "ok"]

\* Database::get_all_tts_instances (database.rs:236-255): the members of the
\* set whose record loads; the others are skipped with a warning
Loaded(d, in) ==
    {g \in d.list :
        LET r == load_tts_instance(d, g, in[g].load)
        IN  r.ok /\ r.value # None}

\* ready.rs:63-142, one turn of the loop for a loaded guild g
RestoreOne(d, g, in) ==
    IF ~(in.lookup = "ok" /\ occ[g] > 0)                 \* ready.rs:65-113
    THEN [restored |-> FALSE, remove |-> TRUE, call |-> calls[g], occ |-> occ[g],
          should_reconnect |-> FALSE, reconnect |-> "none"]
    ELSE LET users == IF in.join = "left" THEN 0 ELSE occ[g]
             r == reconnect(calls, Deserialize(d.blob[g]), TRUE, users,
                            [join |-> IF in.join = "fail" THEN "fail" ELSE "ok",
                             lookup |-> "ok"])
         IN  [restored |-> r.result = "ok", remove |-> r.result # "ok",
              call |-> r.calls[g], occ |-> users,
              should_reconnect |-> TRUE, reconnect |-> r.result]

\* a loop that ends at the first guild it does not restore
restore_until_failure(d, in) ==
    {g \in Loaded(d, in) :
        \A h \in Loaded(d, in) :
            (h = "g1" /\ g = "g2") => RestoreOne(d, h, in[h]).restored}

\* ready.rs:63: the guilds the loop visits, every loaded one
Restorable(d, in) == Loaded(d, in)

\* the answers that matter for guild g in this restoration
RestoreInputsOf(g) ==
    IF g \in database.list
    THEN {in \in RestoreInputs :
            /\ Allowed(in.load) /\ Allowed(in.db)
            /\ g \notin DOMAIN database.blob => in.load = "ok"
            /\ (in.load # "ok" \/ g \notin DOMAIN database.blob) => in = [NoRestoreInput EXCEPT !.load = in.load]
            /\ (in.lookup = "err" \/ occ[g] = 0) => in.join = "ok"
            /\ in.join = "left" => occ[g] = 1
            /\ (in.lookup = "ok" /\ occ[g] > 0 /\ in.join = "ok") => in.db = "ok"}
    ELSE {NoRestoreInput}

RECURSIVE RestoreChoices(_)
RestoreChoices(gs) ==
    IF gs = {} THEN {<<>>}
    ELSE LET g == CHOOSE x \in gs : TRUE
         IN  {Insert(f, g, in) : f \in RestoreChoices(gs \ {g}), in \in RestoreInputsOf(g)}

\* restore_tts_instances (ready.rs:47-154), run once when the process has
\* started
Ready ==
    /\ ev.kind = "start"
    /\ \E all \in LoadOutcomes, in \in RestoreChoices(Guilds) :
        LET visited == IF all = "ok" THEN Restorable(database, in) ELSE {}
            one == [g \in visited |-> RestoreOne(database, g, in[g])]
            restored == {g \in visited : one[g].restored}
            removed == {g \in visited : one[g].remove}
            faults == (IF all = "ok" THEN 0 ELSE 1)
                      + Cardinality({g \in database.list : all = "ok" /\ in[g].load # "ok"})
                      + Cardinality({g \in removed : in[g].db # "ok"})
        IN  /\ all # "ok" => in = [g \in Guilds |-> NoRestoreInput]
            /\ dbFaults + faults <= MaxDbFaults
            /\ storage' = [g \in DOMAIN storage \cup restored |->
                             IF g \in restored THEN Deserialize(database.blob[g])
                             ELSE storage[g]]
            /\ database' = RemoveAll(database, removed, in)
            /\ dbFaults' = dbFaults + faults
            /\ calls' = [g \in Guilds |-> IF g \in visited THEN one[g].call ELSE calls[g]]
            /\ occ' = [g \in Guilds |-> IF g \in visited THEN one[g].occ ELSE occ[g]]
            /\ ev' = [kind |-> "ready", all |-> all,
                      persisted |-> database.list \cap DOMAIN database.blob,
                      seen |-> [g \in visited |->
                                  [should_reconnect |-> one[g].should_reconnect,
                                   reconnect |-> one[g].reconnect,
                                   db |-> IF g \in removed THEN in[g].db ELSE "none"]]]
    /\ UNCHANGED <<reconnection_attempts, streak, ops>>

\* the process stops and starts again (main.rs): an empty registry, no call,
\* an empty monitor; the store keeps what it holds
Restart ==
    /\ ev.kind = "ready"
    /\ storage' = <<>>
    /\ calls' = [g \in Guilds |-> "none"]
    /\ reconnection_attempts' = <<>>
    /\ streak' = [g \in Guilds |-> 0]
    /\ ev' = [kind |-> "start"]
    /\ UNCHANGED <<database, occ, dbFaults, ops>>

(***************************************************************************)
(* The registry's write lock: handlers of guild "g1" running concurrently  *)
(* (src/src/events/message_receive.rs:26-43, src/src/commands/setup.rs:    *)
(* 70-137, src/src/events/voice_state_update.rs:55-121)                    *)
(***************************************************************************)
Handlers == {"h1", "h2"}

LockGuild == "g1"

EventKinds == {"message", "setup", "autostart"}

IdleHandler == [pc |-> "idle", kind |-> "none", created |-> FALSE, saw |-> FALSE,
                kept |-> TRUE, panicked |-> FALSE]

LockIdle ==
    /\ lock = None
    /\ handler = [h \in Handlers |-> IdleHandler]
    /\ queue = <<>>
    /\ order = <<>>

\* the message a message handler was called with
MessageOf(h) ==
    [author |-> IF h = "h1" THEN "u1" ELSE "u2", content |-> <<"hello">>,
     attachments |-> 0]

\* the session a creating handler makes (setup.rs:99-121 with no mode given in
\* the text channel "T"; voice_state_update.rs:65-72 with no autostart text channel)
InstanceOf(h) ==
    TTSInstanceNew(IF handler[h].kind = "setup" THEN <<"T", "V">> ELSE <<"V">>,
                   "V", LockGuild)

\* a lock that is granted whoever holds it
can_lock_always(l, h) == TRUE

\* a lock that is shared, as a read lock is
can_lock_shared(l, h) == l # Some(h)

\* RwLock::write: granted when nobody holds the lock
can_lock(l, h) == l = None

\* the guard is dropped
Unlock(l, h) == IF l = Some(h) THEN None ELSE l

\* an event of guild "g1" is dispatched to a handler
Arrive(h, kind) ==
    /\ handler[h].pc = "idle"
    /\ handler' = [handler EXCEPT ![h] = [IdleHandler EXCEPT !.pc = "wait", !.kind = kind]]
    /\ UNCHANGED <<lock, queue, order, storage, database, calls>>

\* storage_lock.write().await (message_receive.rs:27, setup.rs:71,
\* voice_state_update.rs:56)
Acquire(h) ==
    /\ handler[h].pc = "wait"
    /\ can_lock(lock, h)
    /\ lock' = Some(h)
    /\ order' = Append(order, h)
    /\ handler' = [handler EXCEPT ![h].pc = "locked"]
    /\ UNCHANGED <<queue, storage, database, calls>>

\* message_receive.rs:28-42 with Message::parse (implement/message.rs:106):
\* no session, return; else the message becomes the session's before_message
MsgParse(h) ==
    /\ handler[h].pc = "locked" /\ handler[h].kind = "message"
    /\ IF LockGuild \notin DOMAIN storage
       THEN /\ handler' = [handler EXCEPT ![h].pc = "done"]
            /\ lock' = Unlock(lock, h)
            /\ UNCHANGED storage
       ELSE /\ storage' = [storage EXCEPT ![LockGuild].before_message = Some(MessageOf(h))]
            /\ handler' = [handler EXCEPT ![h].pc = "read"]
            /\ UNCHANGED lock
    /\ UNCHANGED <<queue, order, database, calls>>

\* the synthesis (no track when it fails, implement/message.rs:189-195) and
\* TTSInstance::read's enqueue (instance.rs:169-176), which unwraps the
\* guild's call handle; then the guard is dropped (message_receive.rs:43)
MsgEnqueue(h, synthOk) ==
    /\ handler[h].pc = "read"
    /\ IF calls[LockGuild] = "none"
       THEN /\ handler' = [handler EXCEPT ![h].pc = "done", ![h].panicked = TRUE]
            /\ UNCHANGED queue
       ELSE /\ handler' = [handler EXCEPT ![h].pc = "done"]
            /\ queue' = IF synthOk THEN Append(queue, h) ELSE queue
    /\ lock' = Unlock(lock, h)
    /\ UNCHANGED <<order, storage, database, calls>>

\* setup.rs:72-82 and voice_state_update.rs:57, 123-141: the duplicate check.
\* A setup that finds a session responds and returns; a join that finds one
\* reads the announcement of the join.
CreateCheck(h) ==
    /\ handler[h].pc = "locked" /\ handler[h].kind \in {"setup", "autostart"}
    /\ IF LockGuild \in DOMAIN storage
       THEN /\ storage' = IF handler[h].kind = "autostart"
                          THEN [storage EXCEPT ![LockGuild].before_message = None]
                          ELSE storage
            /\ queue' = IF handler[h].kind = "autostart" /\ calls[LockGuild] # "none"
                        THEN Append(queue, h) ELSE queue
            /\ handler' = [handler EXCEPT
                             ![h].pc = "done", ![h].saw = TRUE,
                             ![h].kept = (storage' = storage),
                             ![h].panicked = (handler[h].kind = "autostart"
                                              /\ calls[LockGuild] = "none")]
            /\ lock' = Unlock(lock, h)
       ELSE /\ handler' = [handler EXCEPT ![h].pc = "absent"]
            /\ UNCHANGED <<storage, queue, lock>>
    /\ UNCHANGED <<order, database, calls>>

\* setup.rs:84-122 and voice_state_update.rs:58-73: the session is made and
\* inserted; the thread of setup's mode NEW_THREAD may fail to be created
\* (unwrap, setup.rs:95)
CreateInsert(h, threadOk) ==
    /\ handler[h].pc = "absent"
    /\ threadOk \/ handler[h].kind = "setup"
    /\ IF threadOk
       THEN /\ storage' = Insert(storage, LockGuild, InstanceOf(h))
            /\ handler' = [handler EXCEPT ![h].pc = "inserted", ![h].created = TRUE]
            /\ UNCHANGED lock
       ELSE /\ handler' = [handler EXCEPT ![h].pc = "done", ![h].panicked = TRUE]
            /\ lock' = Unlock(lock, h)
            /\ UNCHANGED storage
    /\ UNCHANGED <<queue, order, database, calls>>

\* setup.rs:124-137: the save, then the guard is dropped;
\* voice_state_update.rs:75-121: the save, the join and the notice, then the
\* guard is dropped
CreateSave(h) ==
    /\ handler[h].pc = "inserted"
    /\ database' = save_tts_instance(database, LockGuild, InstanceOf(h), "ok")
    /\ IF handler[h].kind = "setup"
       THEN /\ handler' = [handler EXCEPT ![h].pc = "after"]
            /\ UNCHANGED calls
       ELSE /\ handler' = [handler EXCEPT ![h].pc = "done"]
            /\ calls' = Join(calls, LockGuild, TRUE)
    /\ lock' = Unlock(lock, h)
    /\ UNCHANGED <<queue, order, storage>>

\* setup.rs:139-155: the response and the join, outside the lock
SetupJoin(h) ==
    /\ handler[h].pc = "after"
    /\ calls' = Join(calls, LockGuild, TRUE)
    /\ handler' = [handler EXCEPT ![h].pc = "done"]
    /\ UNCHANGED <<lock, queue, order, storage, database>>

(***************************************************************************)
(* The dictionary's literal rules, character by character                  *)
(* (src/src/implement/message.rs:57-76)                                    *)
(***************************************************************************)
NormIdle == [kind |-> "idle"]
DictIdle == norm = NormIdle

\* the strings of length 0..n over the characters cs
RECURSIVE Strings(_, _)
Strings(cs, n) ==
    IF n = 0 THEN {<<>>}
    ELSE LET shorter == Strings(cs, n - 1)
         IN  shorter \cup {<<c>> \o t : c \in cs, t \in {u \in shorter : Len(u) = n - 1}}

\* whether pat occurs in text at position i
OccursAt(text, i, pat) ==
    /\ i + Len(pat) - 1 <= Len(text)
    /\ SubSeq(text, i, i + Len(pat) - 1) = pat

\* whether pat occurs in text
Contains(text, pat) == \E i \in 1..Len(text) : OccursAt(text, i, pat)

\* str::replace from position i on: the matches are taken from the left and
\* do not overlap
RECURSIVE str_replace_from(_, _, _, _)
str_replace_from(text, i, from, to) ==
    IF i > Len(text) THEN <<>>
    ELSE IF OccursAt(text, i, from)
    THEN to \o str_replace_from(text, i + Len(from), from, to)
    ELSE <<text[i]>> \o str_replace_from(text, i + 1, from, to)

\* a replace of the first match only
str_replace_first(text, rule) ==
    IF ~Contains(text, rule.rule) THEN text
    ELSE LET i == CHOOSE k \in 1..Len(text) :
                      /\ OccursAt(text, k, rule.rule)
                      /\ \A j \in 1..(k - 1) : ~OccursAt(text, j, rule.rule)
         IN  SubSeq(text, 1, i - 1) \o rule.to
                 \o SubSeq(text, i + Len(rule.rule), Len(text))

\* text.replace(&rule.rule, &rule.to) (implement/message.rs:74), for a
\* pattern that is not empty
str_replace(text, rule) == str_replace_from(text, 1, rule.rule, rule.to)

\* implement/message.rs:57-76 for literal rules: the rules in list order
RECURSIVE ApplyLiteralRules(_, _)
ApplyLiteralRules(rules, text) ==
    IF rules = <<>> THEN text
    ELSE ApplyLiteralRules(Tail(rules), str_replace(text, Head(rules)))

\* the literal rules of the model and the lists of one or two of them
LiteralRules ==
    [id : {"r"}, is_regex : {FALSE},
     rule : {<<"a">>, <<"b">>, <<"a", "a">>, <<"a", "b">>, <<"b", "a">>, <<"b", "b">>},
     to : {<<"a">>, <<"b">>, <<"x">>}]

RuleLists == {<<r>> : r \in LiteralRules} \cup {<<r, q>> : r \in LiteralRules, q \in LiteralRules}

\* one text and one rule list; out holds the text and what each pass made of it
InitDict ==
    \E rules \in RuleLists, text \in Strings({"a", "b"}, MaxTextLen) :
        norm = [kind |-> "text", rules |-> rules, out |-> <<text>>]

\* one more pass of the rules over the latest text
Normalize ==
    /\ norm.kind = "text"
    /\ Len(norm.out) <= MaxPasses
    /\ norm' = [norm EXCEPT
                   !.out = Append(@, ApplyLiteralRules(norm.rules, norm.out[Len(norm.out)]))]


(***************************************************************************)
(* Reading a message in a session (src/src/implement/message.rs,           *)
(* src/src/tts/message.rs, src/src/tts/instance.rs)                        *)
(***************************************************************************)
Authors == {"u1", "u2"}

\* message contents, as lists of words
Contents == {<<"hello">>, <<"w", "http://x">>}

\* Option::unwrap_or
unwrap_or(o, d) == IF o = None THEN d ELSE o[1]

\* Dictionary::new (database/dictionary.rs:17-34): the two regex rules every
\* new server configuration starts with
DictionaryNew ==
    <<[id |-> "url", is_regex |-> TRUE, rule |-> "URL_PATTERN", to |-> "URL"],
      [id |-> "code", is_regex |-> TRUE, rule |-> "CODE_PATTERN", to |-> "code"]>>

\* Dictionary values of the model: the new one, or the new one and a literal rule
Dictionaries ==
    {DictionaryNew,
     DictionaryNew \o <<[id |-> "w", is_regex |-> FALSE, rule |-> "w", to |-> "world"]>>}

\* the ServerConfig records the store may hold (database/server_config.rs:10-16)
ServerConfigs ==
    [dictionary : Dictionaries, read_username : {None, Some(TRUE), Some(FALSE)}]

\* Database::set_default_server_config (database.rs:133-142)
DefaultServerConfig == [dictionary |-> DictionaryNew, read_username |-> Some(TRUE)]

\* whether a word of the model matches a regex rule's pattern
RegexMatches(pattern, word) ==
    \/ pattern = "URL_PATTERN" /\ word = "http://x"
    \/ pattern = "CODE_PATTERN" /\ word = "<code block>"

\* get_cached_regex (utils.rs:95-122): Ok for a pattern that Regex::new
\* compiles, Err for one it rejects, such as "[" (utils.rs:474-486)
get_cached_regex(pattern) == IF pattern = "[" THEN "Err" ELSE "Ok"

\* implement/message.rs:58-75: regex.replace_all or str::replace for one rule,
\* word by word; a regex rule whose pattern does not compile is passed over
Replace(text, rule) ==
    IF rule.is_regex /\ get_cached_regex(rule.rule) = "Err" THEN text
    ELSE [i \in 1..Len(text) |->
             IF rule.is_regex
             THEN IF RegexMatches(rule.rule, text[i]) THEN rule.to ELSE text[i]
             ELSE IF text[i] = rule.rule THEN rule.to ELSE text[i]]

\* a normalisation that gives up at the first rule that does not compile
RECURSIVE apply_rules_until_invalid(_, _)
apply_rules_until_invalid(rules, text) ==
    IF rules = <<>> THEN text
    ELSE IF Head(rules).is_regex /\ get_cached_regex(Head(rules).rule) = "Err" THEN text
    ELSE apply_rules_until_invalid(Tail(rules), Replace(text, Head(rules)))

\* implement/message.rs:57-76: the rules are applied in list order
RECURSIVE ApplyRules(_, _)
ApplyRules(rules, text) ==
    IF rules = <<>> THEN text
    ELSE ApplyRules(Tail(rules), Replace(text, Head(rules)))

\* rules for the parse of one text: one whose pattern does not compile, the
\* URL rule of a new dictionary and two literal rules, the second of which
\* matches what the first writes
ParseRulePool ==
    {[id |-> "bad", is_regex |-> TRUE, rule |-> "[", to |-> "oops"],
     [id |-> "url", is_regex |-> TRUE, rule |-> "URL_PATTERN", to |-> "URL"],
     [id |-> "h", is_regex |-> FALSE, rule |-> "hello", to |-> "w"],
     [id |-> "w", is_regex |-> FALSE, rule |-> "w", to |-> "world"]}

ParseRuleLists ==
    {<<r>> : r \in ParseRulePool}
        \cup {<<r, q>> : r \in ParseRulePool, q \in ParseRulePool}
        \cup {<<r, q, p>> : r \in ParseRulePool, q \in ParseRulePool, p \in ParseRulePool}

\* the rules of a list that compile, in list order
RECURSIVE Compiling(_)
Compiling(rules) ==
    IF rules = <<>> THEN <<>>
    ELSE IF Head(rules).is_regex /\ get_cached_regex(Head(rules).rule) = "Err"
    THEN Compiling(Tail(rules))
    ELSE <<Head(rules)>> \o Compiling(Tail(rules))

\* one rule list and one text, not parsed yet
InitRules ==
    \E rules \in ParseRuleLists, text \in Contents :
        norm = [kind |-> "rules", rules |-> rules, text |-> text, out |-> None]

\* implement/message.rs:49-76: the rules loop of parse over the text
ParseRules ==
    /\ norm.kind = "rules"
    /\ norm.out = None
    /\ norm' = [norm EXCEPT !.out = Some(ApplyRules(norm.rules, norm.text))]

\* implement/message.rs:83 and 92: the speaker announcement put before the text
WithSpeaker(name, text) == <<name, "san no hatsugen", "break">> \o text

\* whether an utterance starts with the speaker announcement
HasPrefix(res) == Len(res) >= 3 /\ res[2] = "san no hatsugen"

\* a parse that announces the speaker of every message
speaker_changed_always(before_message, author) == TRUE

\* implement/message.rs:77-78 and 88: the speaker is announced when there is
\* no message before or its author differs
speaker_changed(before_message, author) ==
    before_message = None \/ before_message[1].author # author

\* <Message as TTSMessage>::parse (implement/message.rs:24-109): the text to
\* speak and the session afterwards. config is None when the server
\* configuration could not be had (implement/message.rs:39-46).
MessageParse(message, instance, config) ==
    IF config = None
    THEN [text |-> message.content, instance |-> instance]
    ELSE LET text == ApplyRules(config[1].dictionary, message.content)
             res == IF speaker_changed(instance.before_message, message.author)
                       /\ unwrap_or(config[1].read_username, TRUE)
                    THEN WithSpeaker(message.author, text)
                    ELSE text
         IN  [text |-> IF message.attachments > 0
                       THEN res \o <<"break", "attachments">>
                       ELSE res,
              instance |-> [instance EXCEPT !.before_message = Some(message)]]

\* an announcement that leaves the session as it is
announce_keeps_before(message, instance) ==
    [text |-> <<"speak", "announce", "break", message>>, instance |-> instance]

\* <AnnounceMessage as TTSMessage>::parse (tts/message.rs:37-40)
AnnounceParse(message, instance) ==
    [text |-> <<"speak", "announce", "break", message>>,
     instance |-> [instance EXCEPT !.before_message = None]]

\* the reads remembered: the latest MaxHist of them, the latest first
Remember(rec) == <<rec>> \o SubSeq(hist, 1, Min(Len(hist), MaxHist - 1))

\* whether the stored toggle is on (a missing record gets the default, on)
ToggleOn == server_config = None \/ unwrap_or(server_config[1].read_username, TRUE)

ReadIdle ==
    /\ server_config = None
    /\ hist = <<>>

\* a session of guild "g1" as setup leaves it, and any stored configuration
InitRead ==
    /\ now = 0 /\ CbIdle /\ RtIdle /\ TtsIdle
    /\ storage = Insert(<<>>, "g1", TTSInstanceNew(<<"T">>, "V", "g1"))
    /\ database = save_tts_instance([blob |-> <<>>, list |-> {}], "g1",
                                    TTSInstanceNew(<<"T">>, "V", "g1"), "ok")
    /\ calls = [g \in Guilds |-> IF g = "g1" THEN "connected" ELSE "none"]
    /\ reconnection_attempts = <<>>
    /\ streak = [g \in Guilds |-> 0]
    /\ occ = [g \in Guilds |-> IF g = "g1" THEN 1 ELSE 0]
    /\ dbFaults = 0
    /\ ops = {}
    /\ ev = EvOff
    /\ norm = NormIdle
    /\ UtterIdle /\ LockIdle
    /\ server_config \in {None} \cup {Some(c) : c \in ServerConfigs}
    /\ hist = <<>>

\* events/message_receive.rs:26-43 and TTSInstance::read (instance.rs:163-177)
\* for a message of the session's text channel: parse, then synthesis and
\* enqueue. cfgOk: get_server_config_or_default answered with a record.
MessageRead(g) ==
    /\ g \in DOMAIN storage
    /\ \E author \in Authors, content \in Contents, attachments \in 0..1,
          cfgOk \in BOOLEAN :
        LET message == [author |-> author, content |-> content,
                        attachments |-> attachments]
            config == IF ~cfgOk THEN None
                      ELSE IF server_config = None THEN Some(DefaultServerConfig)
                      ELSE server_config
            parsed == MessageParse(message, storage[g], config)
        IN  /\ storage' = [storage EXCEPT ![g] = parsed.instance]
            /\ server_config' = IF cfgOk THEN config ELSE server_config
            /\ hist' = Remember([kind |-> "message", author |-> author,
                                 cfg |-> cfgOk, on |-> ToggleOn,
                                 first |-> hist = <<>>,
                                 seen |-> IF storage[g].before_message = None
                                          THEN "nobody"
                                          ELSE storage[g].before_message[1].author,
                                 prefix |-> HasPrefix(parsed.text)])
    /\ UNCHANGED <<database, calls, reconnection_attempts, streak, occ, dbFaults, ops, ev>>

\* a read that remembers the message only when its synthesis gave audio
read_message_after_synthesis(message, instance, config, synthOk) ==
    LET parsed == MessageParse(message, instance, config)
    IN  [instance |-> IF synthOk THEN parsed.instance ELSE instance,
         text |-> parsed.text,
         enqueued |-> IF synthOk THEN 1 ELSE 0]

\* TTSInstance::read (instance.rs:163-177) of a user's message with
\* <Message as TTSMessage>::synthesize (implement/message.rs:111-196): parse
\* builds the text and changes the session, then the synthesis gives one
\* track or, when it fails, none (189-195), and the tracks are enqueued
read_message(message, instance, config, synthOk) ==
    LET parsed == MessageParse(message, instance, config)
    IN  [instance |-> parsed.instance,
         text |-> parsed.text,
         enqueued |-> IF synthOk THEN 1 ELSE 0]

\* what a read leaves for the next one to compare with
ReadSummary(e) ==
    IF e.kind = "read"
    THEN [kind |-> "read", author |-> e.author, cfg |-> e.cfg, synthOk |-> e.synthOk]
    ELSE [kind |-> "none"]

\* a session of guild "g1" with its call connected, and any stored
\* configuration; the reads are observed
InitSpoken ==
    /\ now = 0 /\ CbIdle /\ RtIdle /\ TtsIdle
    /\ storage = Insert(<<>>, "g1", TTSInstanceNew(<<"T">>, "V", "g1"))
    /\ database = save_tts_instance([blob |-> <<>>, list |-> {}], "g1",
                                    TTSInstanceNew(<<"T">>, "V", "g1"), "ok")
    /\ calls = [g \in Guilds |-> IF g = "g1" THEN "connected" ELSE "none"]
    /\ reconnection_attempts = <<>>
    /\ streak = [g \in Guilds |-> 0]
    /\ occ = [g \in Guilds |-> IF g = "g1" THEN 1 ELSE 0]
    /\ dbFaults = 0
    /\ ops = {}
    /\ ev = [kind |-> "start"]
    /\ norm = NormIdle
    /\ UtterIdle /\ LockIdle
    /\ server_config \in {None} \cup {Some(c) : c \in ServerConfigs}
    /\ hist = <<>>

\* events/message_receive.rs:26-43 and TTSInstance::read for a message of the
\* session's text channel, with the outcome of the synthesis. cfgOk:
\* get_server_config_or_default answered with a record.
ReadMessage(g) ==
    /\ g \in DOMAIN storage
    /\ calls[g] # "none"
    /\ \E author \in Authors, content \in Contents, attachments \in 0..1,
          cfgOk \in BOOLEAN, synthOk \in BOOLEAN :
        LET message == [author |-> author, content |-> content,
                        attachments |-> attachments]
            config == IF ~cfgOk THEN None
                      ELSE IF server_config = None THEN Some(DefaultServerConfig)
                      ELSE server_config
            r == read_message(message, storage[g], config, synthOk)
        IN  /\ storage' = [storage EXCEPT ![g] = r.instance]
            /\ server_config' = IF cfgOk THEN config ELSE server_config
            /\ ev' = [kind |-> "read", g |-> g, author |-> author, cfg |-> cfgOk,
                      synthOk |-> synthOk, enqueued |-> r.enqueued,
                      on |-> unwrap_or(config, DefaultServerConfig).read_username # Some(FALSE),
                      prefix |-> HasPrefix(r.text),
                      prev |-> ReadSummary(ev)]
    /\ UNCHANGED <<database, calls, reconnection_attempts, streak, occ, dbFaults, ops, hist>>

\* events/voice_state_update.rs:127-141 and TTSInstance::read: a join or a
\* leave of the session's voice channel is announced
AnnounceRead(g) ==
    /\ g \in DOMAIN storage
    /\ \E message \in {"joined", "left"} :
        LET parsed == AnnounceParse(message, storage[g])
        IN  /\ storage' = [storage EXCEPT ![g] = parsed.instance]
            /\ hist' = Remember([kind |-> "announce", author |-> "nobody",
                                 cfg |-> TRUE, on |-> ToggleOn,
                                 first |-> hist = <<>>,
                                 seen |-> IF storage[g].before_message = None
                                          THEN "nobody"
                                          ELSE storage[g].before_message[1].author,
                                 prefix |-> HasPrefix(parsed.text)])
    /\ UNCHANGED <<server_config, database, calls, reconnection_attempts, streak, occ,
                   dbFaults, ops, ev>>

\* event_handler.rs:233-275: the read-username button of the config panel
ToggleReadUsername ==
    /\ LET config == IF server_config = None THEN DefaultServerConfig
                     ELSE server_config[1]
       IN  server_config' =
               Some([config EXCEPT !.read_username = Some(~unwrap_or(@, TRUE))])
    /\ UNCHANGED <<regVars, hist>>

(***************************************************************************)
(* Changes of the server configuration from the config panel               *)
(* (src/src/event_handler.rs:41-379, src/src/database/database.rs:101-173)  *)
(***************************************************************************)
\* the rule the add-dictionary modal of the model submits
NewRule == [id |-> "n", is_regex |-> TRUE, rule |-> "N_PATTERN", to |-> "n"]

\* the third rule the stored dictionary may start with
ThirdRule == [id |-> "w", is_regex |-> TRUE, rule |-> "W_PATTERN", to |-> "world"]

ConfigKinds == {"add", "toggle", "remove"}

IdleInteraction ==
    [pc |-> "idle", kind |-> "none", i |-> 0, menu |-> None, copy |-> None,
     wrote |-> None]

\* a removal that takes the last rule of the list
vec_remove_last(rules, i) == SubSeq(rules, 1, Len(rules) - 1)

\* Vec::remove(i) for an index inside the list (event_handler.rs:302); the
\* index counts from 0
vec_remove(rules, i) == SubSeq(rules, 1, i) \o SubSeq(rules, i + 2, Len(rules))

\* the record a handler writes back: its copy with its one change
\* (event_handler.rs:158, 204-205, 302)
Changed(kind, i, config) ==
    CASE kind = "add" ->
             [config EXCEPT !.dictionary = Append(@, NewRule)]
      [] kind = "toggle" ->
             [config EXCEPT !.read_username = Some(~unwrap_or(@, TRUE))]
      [] kind = "remove" ->
             [config EXCEPT !.dictionary = vec_remove(@, i)]

\* get_server_config_or_default (database.rs:161-173) with the store
\* answering: the record stored, the default one stored first when none is
StoredOrDefault == IF server_config = None THEN DefaultServerConfig ELSE server_config[1]

\* the stored configuration at the start: none, the default one or the
\* default one with a third rule
InitConfig ==
    /\ server_config \in {None, Some(DefaultServerConfig),
                          Some([DefaultServerConfig EXCEPT !.dictionary = Append(@, ThirdRule)])}
    /\ hist = <<>>
    /\ lock = None
    /\ handler = [h \in Handlers |-> IdleInteraction]
    /\ queue = <<>>
    /\ order = <<>>

\* TTS_CONFIG_SERVER_REMOVE_DICTIONARY_BUTTON (event_handler.rs:326-379): the
\* menu shows the rules of the stored list, each with its position as value
ShowRemoveMenu(h) ==
    /\ handler[h].pc = "idle"
    /\ handler[h].menu = None
    /\ server_config' = Some(StoredOrDefault)
    /\ handler' = [handler EXCEPT ![h].menu = Some(StoredOrDefault.dictionary)]
    /\ UNCHANGED <<hist, lock, queue, order>>

\* an interaction reaches its handler: the add-dictionary modal
\* (event_handler.rs:43-134), a toggle button (189, 233) or a selection of
\* the removal menu, whose value is the position shown (277-286)
Interact(h, kind, i) ==
    /\ handler[h].pc = "idle"
    /\ kind = "remove" => /\ handler[h].menu # None
                          /\ i < Len(handler[h].menu[1])
    /\ kind # "remove" => i = 0
    /\ handler' = [handler EXCEPT ![h].pc = "get", ![h].kind = kind, ![h].i = i]
    /\ UNCHANGED <<server_config, hist, lock, queue, order>>

\* the handler's get_server_config_or_default (event_handler.rs:146-157,
\* 197-201, 295-299): a failure ends the handler
GetConfig(h, ok) ==
    /\ handler[h].pc = "get"
    /\ IF ok
       THEN /\ server_config' = Some(StoredOrDefault)
            /\ handler' = [handler EXCEPT ![h].pc = "set",
                                          ![h].copy = Some(StoredOrDefault)]
       ELSE /\ handler' = [handler EXCEPT ![h].pc = "failed"]
            /\ UNCHANGED server_config
    /\ UNCHANGED <<hist, lock, queue, order>>

\* the handler's change of its copy and set_server_config
\* (event_handler.rs:158-172, 204-218, 302-313): Vec::remove panics for a
\* position outside the list; a failed write ends the handler
SetConfig(h, ok) ==
    /\ handler[h].pc = "set"
    /\ LET copy == handler[h].copy[1]
       IN  IF handler[h].kind = "remove" /\ handler[h].i >= Len(copy.dictionary)
           THEN /\ handler' = [handler EXCEPT ![h].pc = "panicked"]
                /\ UNCHANGED server_config
           ELSE IF ok
           THEN /\ server_config' = Some(Changed(handler[h].kind, handler[h].i, copy))
                /\ handler' = [handler EXCEPT
                                   ![h].pc = "done",
                                   ![h].wrote = Some(Changed(handler[h].kind, handler[h].i, copy))]
           ELSE /\ handler' = [handler EXCEPT ![h].pc = "failed"]
                /\ UNCHANGED server_config
    /\ UNCHANGED <<hist, lock, queue, order>>

(***************************************************************************)
(* The text channels of a session (src/src/tts/instance.rs:25-59)          *)
(***************************************************************************)
Channels == {"T", "V", "Th"}

\* the lists setup builds for its modes (commands/setup.rs:84-119) and the
\* autostart builds (events/voice_state_update.rs:65-70)
CreatedChannelLists == {<<"T">>, <<"Th">>, <<"V">>, <<"T", "V">>}

\* TTSInstance::add_text_channel (instance.rs:40-44)
add_text_channel(instance, channel_id) ==
    IF channel_id \in SeqSet(instance.text_channels) THEN instance
    ELSE [instance EXCEPT !.text_channels = Append(@, channel_id)]

\* TTSInstance::remove_text_channel (instance.rs:47-54)
remove_text_channel(instance, channel_id) ==
    [instance EXCEPT !.text_channels = SeqWithout(@, channel_id)]

\* every guild has a session as its creation left it, saved
InitChannels ==
    \E lists \in [Guilds -> CreatedChannelLists] :
        /\ storage = [g \in Guilds |-> TTSInstanceNew(lists[g], "V", g)]
        /\ database = [blob |-> [g \in Guilds |->
                                    Serialize(TTSInstanceNew(lists[g], "V", g))],
                       list |-> Guilds]
        /\ calls = [g \in Guilds |-> "connected"]
        /\ reconnection_attempts = <<>>
        /\ streak = [g \in Guilds |-> 0]
        /\ occ = [g \in Guilds |-> 1]
        /\ dbFaults = 0
        /\ ops = {}
        /\ ev = EvOff

AddTextChannel(g, channel_id) ==
    /\ g \in DOMAIN storage
    /\ storage' = [storage EXCEPT ![g] = add_text_channel(@, channel_id)]
    /\ UNCHANGED <<database, calls, reconnection_attempts, streak, occ, dbFaults, ops, ev>>

RemoveTextChannel(g, channel_id) ==
    /\ g \in DOMAIN storage
    /\ storage' = [storage EXCEPT ![g] = remove_text_channel(@, channel_id)]
    /\ UNCHANGED <<database, calls, reconnection_attempts, streak, occ, dbFaults, ops, ev>>

(***************************************************************************)
(* The classification of a voice-state change                              *)
(* (src/src/implement/voice_move_state.rs)                                 *)
(***************************************************************************)
VoiceChannels == {"V", "W", "X"}

\* a VoiceState, as far as move_state reads it: its channel_id
VoiceStates == [channel_id : {None} \cup {Some(c) : c \in VoiceChannels}]

\* <VoiceState as VoiceMoveStateTrait>::move_state
\* (implement/voice_move_state.rs:14-52); "panic" is the unwrap of line 19
move_state(new, old, target_channel) ==
    IF old = None
    THEN IF new.channel_id = None THEN "panic"
         ELSE IF target_channel = new.channel_id[1] THEN "JOIN" ELSE "NONE"
    ELSE LET old_channel == old[1].channel_id
             new_channel == new.channel_id
         IN  IF old_channel # None /\ new_channel # None
             THEN IF old_channel[1] = new_channel[1] THEN "NONE"
                  ELSE IF target_channel = new_channel[1] THEN "JOIN" ELSE "NONE"
             ELSE IF old_channel # None /\ new_channel = None
             THEN IF old_channel[1] = target_channel THEN "LEAVE" ELSE "NONE"
             ELSE "NONE"

\* one voice-state change and the voice channel of the guild's session
InitMove ==
    \E old \in {None} \cup {Some(v) : v \in VoiceStates}, new \in VoiceStates,
       target_channel \in VoiceChannels :
        norm = [kind |-> "move", old |-> old, new |-> new,
                target_channel |-> target_channel, out |-> None]

\* events/voice_state_update.rs:125: the handler classifies the change
Classify ==
    /\ norm.kind = "move"
    /\ norm.out = None
    /\ norm' = [norm EXCEPT !.out = Some(move_state(norm.new, norm.old, norm.target_channel))]

(***************************************************************************)
(* Specifications                                                          *)
(***************************************************************************)
NextCB ==
    \/ Tick /\ UNCHANGED <<rtVars, ttsVars, regVars, readVars, dictVars, utterVars, lockVars>>
    \/ CallOnFailure /\ UNCHANGED <<rtVars, ttsVars, regVars, readVars, dictVars, utterVars, lockVars>>
    \/ CallOnSuccess /\ UNCHANGED <<rtVars, ttsVars, regVars, readVars, dictVars, utterVars, lockVars>>
    \/ CallTryHalfOpen /\ UNCHANGED <<rtVars, ttsVars, regVars, readVars, dictVars, utterVars, lockVars>>

InitCB == now = 0 /\ InitBreaker /\ RtIdle /\ TtsIdle /\ RegIdle /\ ReadIdle /\ DictIdle /\ UtterIdle /\ LockIdle

SpecCB == InitCB /\ [][NextCB]_vars

NextRetry ==
    \/ RetryAttempt /\ UNCHANGED <<now, cbVars, ttsVars, regVars, readVars, dictVars, utterVars, lockVars>>
    \/ RetrySleep /\ UNCHANGED <<now, cbVars, ttsVars, regVars, readVars, dictVars, utterVars, lockVars>>

InitRT == now = 0 /\ CbIdle /\ InitRetry /\ TtsIdle /\ RegIdle /\ ReadIdle /\ DictIdle /\ UtterIdle /\ LockIdle

SpecRetry == InitRT /\ [][NextRetry]_vars

NextTTS ==
    \/ \E p \in Callers, k \in Keys : Lookup(p, k) /\ UNCHANGED <<cbVars, rtVars, regVars, readVars, dictVars, utterVars, lockVars>>
    \/ \E p \in Callers : CheckBreaker(p) /\ UNCHANGED <<cbVars, rtVars, regVars, readVars, dictVars, utterVars, lockVars>>
    \/ \E p \in Callers, answer \in BOOLEAN : Attempt(p, answer) /\ UNCHANGED <<cbVars, rtVars, regVars, readVars, dictVars, utterVars, lockVars>>
    \/ \E p \in Callers : RecordFailure(p) /\ UNCHANGED <<cbVars, rtVars, regVars, readVars, dictVars, utterVars, lockVars>>
    \/ \E p \in Callers : RecordSuccess(p) /\ UNCHANGED <<cbVars, rtVars, regVars, readVars, dictVars, utterVars, lockVars>>
    \/ \E p \in Callers, ok \in BOOLEAN : Compress(p, ok) /\ UNCHANGED <<cbVars, rtVars, regVars, readVars, dictVars, utterVars, lockVars>>
    \/ \E k \in Keys, ok \in BOOLEAN : CacheTask(k, ok) /\ UNCHANGED <<cbVars, rtVars, regVars, readVars, dictVars, utterVars, lockVars>>
    \/ TickTTS /\ UNCHANGED <<cbVars, rtVars, regVars, readVars, dictVars, utterVars, lockVars>>

InitSynth == now = 0 /\ CbIdle /\ RtIdle /\ InitTTS /\ RegIdle /\ ReadIdle /\ DictIdle /\ UtterIdle /\ LockIdle

SpecTTS == InitSynth /\ [][NextTTS]_vars

Next ==
    \/ \E g \in Guilds : Setup(g) /\ UNCHANGED <<now, cbVars, rtVars, ttsVars, readVars, dictVars, utterVars, lockVars>>
    \/ \E g \in Guilds : Stop(g) /\ UNCHANGED <<now, cbVars, rtVars, ttsVars, readVars, dictVars, utterVars, lockVars>>
    \/ \E g \in Guilds : Skip(g) /\ UNCHANGED <<now, cbVars, rtVars, ttsVars, readVars, dictVars, utterVars, lockVars>>
    \/ MonitorTick /\ UNCHANGED <<now, cbVars, rtVars, ttsVars, readVars, dictVars, utterVars, lockVars>>
    \/ \E g \in Guilds : VoiceJoin(g) /\ UNCHANGED <<now, cbVars, rtVars, ttsVars, readVars, dictVars, utterVars, lockVars>>
    \/ \E g \in Guilds : VoiceLeave(g) /\ UNCHANGED <<now, cbVars, rtVars, ttsVars, readVars, dictVars, utterVars, lockVars>>
    \/ \E g \in Guilds : Disconnect(g) /\ UNCHANGED <<now, cbVars, rtVars, ttsVars, readVars, dictVars, utterVars, lockVars>>

Init == now = 0 /\ CbIdle /\ RtIdle /\ TtsIdle /\ InitRegistry /\ ReadIdle /\ DictIdle /\ UtterIdle /\ LockIdle

Spec == Init /\ [][Next]_vars

\* the registry's handlers, watched: every handler leaves its observation in
\* ev. The store answers every command in these runs.
InitObs ==
    /\ now = 0 /\ CbIdle /\ RtIdle /\ TtsIdle /\ ReadIdle /\ DictIdle /\ UtterIdle /\ LockIdle
    /\ storage = <<>>
    /\ database = [blob |-> <<>>, list |-> {}]
    /\ calls = [g \in Guilds |-> "none"]
    /\ reconnection_attempts = <<>>
    /\ streak = [g \in Guilds |-> 0]
    /\ occ = [g \in Guilds |-> 0]
    /\ dbFaults = MaxDbFaults
    /\ ops = {}
    /\ ev = [kind |-> "start"]

SpecObs == InitObs /\ [][Next]_vars

\* reconnect on its own: sessions of both guilds, in any connection state and
\* with any occupancy
InitReconnect ==
    /\ now = 0 /\ CbIdle /\ RtIdle /\ TtsIdle /\ ReadIdle /\ DictIdle /\ UtterIdle /\ LockIdle
    /\ storage = [g \in Guilds |-> TTSInstanceNew(<<"T">>, "V", g)]
    /\ database = [blob |-> [g \in Guilds |-> Serialize(storage[g])], list |-> Guilds]
    /\ calls \in [Guilds -> {"none", "handle", "connected"}]
    /\ reconnection_attempts = <<>>
    /\ streak = [g \in Guilds |-> 0]
    /\ occ \in [Guilds -> 0..MaxUsers]
    /\ dbFaults = 0
    /\ ops = {}
    /\ ev = [kind |-> "start"]

NextReconnect ==
    \/ \E g \in Guilds : CallReconnect(g) /\ UNCHANGED <<now, cbVars, rtVars, ttsVars, readVars, dictVars, utterVars, lockVars>>
    \/ \E g \in Guilds : Disconnect(g) /\ UNCHANGED <<now, cbVars, rtVars, ttsVars, readVars, dictVars, utterVars, lockVars>>

SpecReconnect == InitReconnect /\ [][NextReconnect]_vars

\* save and load of a session's record: one guild with any session
InitStore ==
    /\ now = 0 /\ CbIdle /\ RtIdle /\ TtsIdle /\ ReadIdle /\ DictIdle /\ UtterIdle /\ LockIdle
    /\ \E g \in Guilds : \E instance \in InstancesOf(g) :
           storage = Insert(<<>>, g, instance)
    /\ database = [blob |-> <<>>, list |-> {}]
    /\ calls = [g \in Guilds |-> "none"]
    /\ reconnection_attempts = <<>>
    /\ streak = [g \in Guilds |-> 0]
    /\ occ = [g \in Guilds |-> 0]
    /\ dbFaults = 0
    /\ ops = {}
    /\ ev = [kind |-> "start"]

NextStore ==
    \/ \E g \in Guilds : SaveInstance(g) /\ UNCHANGED <<now, cbVars, rtVars, ttsVars, readVars, dictVars, utterVars, lockVars>>
    \/ \E g \in Guilds : LoadInstance(g) /\ UNCHANGED <<now, cbVars, rtVars, ttsVars, readVars, dictVars, utterVars, lockVars>>

SpecStore == InitStore /\ [][NextStore]_vars

InitNorm == now = 0 /\ CbIdle /\ RtIdle /\ TtsIdle /\ RegIdle /\ ReadIdle /\ InitDict /\ UtterIdle /\ LockIdle

NextDict ==
    \/ Normalize /\ UNCHANGED <<now, cbVars, rtVars, ttsVars, regVars, readVars, utterVars, lockVars>>

SpecDict == InitNorm /\ [][NextDict]_vars

\* the monitor on its own: sessions of both guilds in any connection state,
\* with any occupancy and any count of failed reconnections; the store may
\* fail a command
InitMonitor ==
    /\ now = 0 /\ CbIdle /\ RtIdle /\ TtsIdle /\ ReadIdle /\ DictIdle /\ UtterIdle /\ LockIdle
    /\ storage = [g \in Guilds |-> TTSInstanceNew(<<"T">>, "V", g)]
    /\ database = [blob |-> [g \in Guilds |-> Serialize(storage[g])], list |-> Guilds]
    /\ calls \in [Guilds -> {"none", "handle", "connected"}]
    /\ \E gs \in SUBSET Guilds :
           reconnection_attempts \in [gs -> 1..(MAX_RECONNECTION_ATTEMPTS - 1)]
    /\ streak = [g \in Guilds |-> Attempts(g)]
    /\ occ \in [Guilds -> 0..MaxUsers]
    /\ dbFaults = 0
    /\ ops = {}
    /\ ev = [kind |-> "start"]

NextMonitor ==
    \/ MonitorTick /\ UNCHANGED <<now, cbVars, rtVars, ttsVars, readVars, dictVars, utterVars, lockVars>>
    \/ \E g \in Guilds : Disconnect(g) /\ UNCHANGED <<now, cbVars, rtVars, ttsVars, readVars, dictVars, utterVars, lockVars>>

SpecMonitor == InitMonitor /\ [][NextMonitor]_vars

\* one reader's utterances, one after the other
NextUtter ==
    \/ \E k \in Keys : UtterCall(k) /\ UNCHANGED <<cbVars, rtVars, regVars, readVars, dictVars, lockVars>>
    \/ UtterCheck /\ UNCHANGED <<cbVars, rtVars, regVars, readVars, dictVars, lockVars>>
    \/ \E answer \in BOOLEAN : UtterBackend(answer) /\ UNCHANGED <<cbVars, rtVars, regVars, readVars, dictVars, lockVars>>
    \/ UtterFailed /\ UNCHANGED <<cbVars, rtVars, regVars, readVars, dictVars, lockVars>>
    \/ UtterGot /\ UNCHANGED <<cbVars, rtVars, regVars, readVars, dictVars, lockVars>>
    \/ \E ok \in BOOLEAN : UtterCompress(ok) /\ UNCHANGED <<cbVars, rtVars, regVars, readVars, dictVars, lockVars>>
    \/ \E k \in Keys, ok \in BOOLEAN : CacheTask(k, ok) /\ UNCHANGED utter /\ UNCHANGED <<cbVars, rtVars, regVars, readVars, dictVars, lockVars>>
    \/ TickTTS /\ UNCHANGED utter /\ UNCHANGED <<cbVars, rtVars, regVars, readVars, dictVars, lockVars>>

InitUtter == now = 0 /\ CbIdle /\ RtIdle /\ InitTTS /\ RegIdle /\ ReadIdle /\ DictIdle /\ UtterIdle /\ LockIdle

SpecUtter == InitUtter /\ [][NextUtter]_vars

\* the process starts with any set of guilds persisted, as saves left them,
\* and any occupancy of their voice channels
InitRestore ==
    /\ now = 0 /\ CbIdle /\ RtIdle /\ TtsIdle /\ ReadIdle /\ DictIdle /\ UtterIdle /\ LockIdle
    /\ storage = <<>>
    /\ \E gs \in SUBSET Guilds :
           \E text \in [gs -> {<<"T">>, <<"V">>, <<"Th">>, <<"T", "V">>}] :
               database = [blob |-> [g \in gs |-> Serialize(TTSInstanceNew(text[g], "V", g))],
                           list |-> gs]
    /\ calls = [g \in Guilds |-> "none"]
    /\ reconnection_attempts = <<>>
    /\ streak = [g \in Guilds |-> 0]
    /\ occ \in [Guilds -> 0..MaxUsers]
    /\ dbFaults = 0
    /\ ops = {}
    /\ ev = [kind |-> "start"]

NextRestore ==
    \/ Ready /\ UNCHANGED <<now, cbVars, rtVars, ttsVars, readVars, dictVars, utterVars, lockVars>>
    \/ Restart /\ UNCHANGED <<now, cbVars, rtVars, ttsVars, readVars, dictVars, utterVars, lockVars>>

SpecRestore == InitRestore /\ [][NextRestore]_vars

\* two handlers on guild "g1", which has a session or none
InitLock ==
    /\ now = 0 /\ CbIdle /\ RtIdle /\ TtsIdle /\ ReadIdle /\ DictIdle /\ UtterIdle /\ LockIdle
    /\ \E had \in BOOLEAN, connected \in BOOLEAN :
           /\ storage = IF had THEN Insert(<<>>, LockGuild, TTSInstanceNew(<<"T">>, "V", LockGuild))
                        ELSE <<>>
           /\ database = IF had
                         THEN save_tts_instance([blob |-> <<>>, list |-> {}], LockGuild,
                                                TTSInstanceNew(<<"T">>, "V", LockGuild), "ok")
                         ELSE [blob |-> <<>>, list |-> {}]
           /\ calls = [g \in Guilds |-> IF g = LockGuild /\ had /\ connected
                                        THEN "connected" ELSE "none"]
    /\ reconnection_attempts = <<>>
    /\ streak = [g \in Guilds |-> 0]
    /\ occ = [g \in Guilds |-> IF g = LockGuild THEN 1 ELSE 0]
    /\ dbFaults = 0
    /\ ops = {}
    /\ ev = EvOff

NextLock ==
    \/ \E h \in Handlers, kind \in EventKinds : Arrive(h, kind) /\ UNCHANGED <<now, cbVars, rtVars, ttsVars, reconnection_attempts, streak, occ, dbFaults, ops, ev, readVars, dictVars, utterVars>>
    \/ \E h \in Handlers : Acquire(h) /\ UNCHANGED <<now, cbVars, rtVars, ttsVars, reconnection_attempts, streak, occ, dbFaults, ops, ev, readVars, dictVars, utterVars>>
    \/ \E h \in Handlers : MsgParse(h) /\ UNCHANGED <<now, cbVars, rtVars, ttsVars, reconnection_attempts, streak, occ, dbFaults, ops, ev, readVars, dictVars, utterVars>>
    \/ \E h \in Handlers, synthOk \in BOOLEAN : MsgEnqueue(h, synthOk) /\ UNCHANGED <<now, cbVars, rtVars, ttsVars, reconnection_attempts, streak, occ, dbFaults, ops, ev, readVars, dictVars, utterVars>>
    \/ \E h \in Handlers : CreateCheck(h) /\ UNCHANGED <<now, cbVars, rtVars, ttsVars, reconnection_attempts, streak, occ, dbFaults, ops, ev, readVars, dictVars, utterVars>>
    \/ \E h \in Handlers, threadOk \in BOOLEAN : CreateInsert(h, threadOk) /\ UNCHANGED <<now, cbVars, rtVars, ttsVars, reconnection_attempts, streak, occ, dbFaults, ops, ev, readVars, dictVars, utterVars>>
    \/ \E h \in Handlers : CreateSave(h) /\ UNCHANGED <<now, cbVars, rtVars, ttsVars, reconnection_attempts, streak, occ, dbFaults, ops, ev, readVars, dictVars, utterVars>>
    \/ \E h \in Handlers : SetupJoin(h) /\ UNCHANGED <<now, cbVars, rtVars, ttsVars, reconnection_attempts, streak, occ, dbFaults, ops, ev, readVars, dictVars, utterVars>>

SpecLock == InitLock /\ [][NextLock]_vars

InitParse == now = 0 /\ CbIdle /\ RtIdle /\ TtsIdle /\ RegIdle /\ ReadIdle /\ InitRules /\ UtterIdle /\ LockIdle

NextParse ==
    \/ ParseRules /\ UNCHANGED <<now, cbVars, rtVars, ttsVars, regVars, readVars, utterVars, lockVars>>

SpecParse == InitParse /\ [][NextParse]_vars

InitPanel == now = 0 /\ CbIdle /\ RtIdle /\ TtsIdle /\ RegIdle /\ DictIdle /\ UtterIdle /\ InitConfig

NextPanel ==
    \/ \E h \in Handlers : ShowRemoveMenu(h) /\ UNCHANGED <<now, cbVars, rtVars, ttsVars, regVars, dictVars, utterVars>>
    \/ \E h \in Handlers, kind \in ConfigKinds, i \in 0..2 : Interact(h, kind, i) /\ UNCHANGED <<now, cbVars, rtVars, ttsVars, regVars, dictVars, utterVars>>
    \/ \E h \in Handlers, ok \in BOOLEAN : GetConfig(h, ok) /\ UNCHANGED <<now, cbVars, rtVars, ttsVars, regVars, dictVars, utterVars>>
    \/ \E h \in Handlers, ok \in BOOLEAN : SetConfig(h, ok) /\ UNCHANGED <<now, cbVars, rtVars, ttsVars, regVars, dictVars, utterVars>>

SpecPanel == InitPanel /\ [][NextPanel]_vars

InitSession == now = 0 /\ CbIdle /\ RtIdle /\ TtsIdle /\ ReadIdle /\ DictIdle /\ UtterIdle /\ LockIdle /\ InitChannels

NextSession ==
    \/ \E g \in Guilds, channel_id \in Channels : AddTextChannel(g, channel_id) /\ UNCHANGED <<now, cbVars, rtVars, ttsVars, readVars, dictVars, utterVars, lockVars>>
    \/ \E g \in Guilds, channel_id \in Channels : RemoveTextChannel(g, channel_id) /\ UNCHANGED <<now, cbVars, rtVars, ttsVars, readVars, dictVars, utterVars, lockVars>>

SpecSession == InitSession /\ [][NextSession]_vars

InitClassify == now = 0 /\ CbIdle /\ RtIdle /\ TtsIdle /\ RegIdle /\ ReadIdle /\ InitMove /\ UtterIdle /\ LockIdle

NextClassify ==
    \/ Classify /\ UNCHANGED <<now, cbVars, rtVars, ttsVars, regVars, readVars, utterVars, lockVars>>

SpecClassify == InitClassify /\ [][NextClassify]_vars

NextSpoken ==
    \/ \E g \in Guilds : ReadMessage(g) /\ UNCHANGED <<now, cbVars, rtVars, ttsVars, dictVars, utterVars, lockVars>>
    \/ ToggleReadUsername /\ UNCHANGED <<now, cbVars, rtVars, ttsVars, dictVars, utterVars, lockVars>>

SpecSpoken == InitSpoken /\ [][NextSpoken]_vars

NextRead ==
    \/ \E g \in {"g1"} : MessageRead(g) /\ UNCHANGED <<now, cbVars, rtVars, ttsVars, dictVars, utterVars, lockVars>>
    \/ \E g \in {"g1"} : AnnounceRead(g) /\ UNCHANGED <<now, cbVars, rtVars, ttsVars, dictVars, utterVars, lockVars>>
    \/ ToggleReadUsername /\ UNCHANGED <<now, cbVars, rtVars, ttsVars, dictVars, utterVars, lockVars>>

SpecRead == InitRead /\ [][NextRead]_vars

(***************************************************************************)
(* Claims about the circuit breaker, checked under SpecCB                  *)
(***************************************************************************)

\* C3: from Closed with failure count 0, after fewer than threshold on_failure
\* calls in a row the breaker is Closed and can_execute() is true; after exactly
\* threshold of them it is Open and can_execute() is false for as long as less
\* than timeout has passed since the last failure.
ThmC3 ==
    /\ cbObs.streak < cb.threshold =>
           cb.state = "Closed" /\ can_execute(cb, now)
    /\ (cbObs.streak >= 1 /\ cbObs.streak = cb.threshold
          /\ elapsed(cbObs.failAt, now) < cb.timeout) =>
           cb.state = "Open" /\ ~can_execute(cb, now)

WitC3 ==
    /\ cb.threshold = 3 /\ cbObs.streak = 3
    /\ cb.state = "Open" /\ ~can_execute(cb, now)
    /\ now > cbObs.failAt

\* C5: whatever the threshold, an on_failure() recorded while the breaker is
\* HalfOpen leaves it Open, and from then on can_execute() is true exactly when
\* timeout has passed since that failure.
ThmC5 ==
    (cbObs.op = "on_failure" /\ cbObs.prev = "HalfOpen") =>
        /\ cb.state = "Open"
        /\ can_execute(cb, now) <=> (elapsed(cbObs.at, now) >= cb.timeout)

WitC5 ==
    /\ cbObs.op = "on_failure" /\ cbObs.prev = "HalfOpen"
    /\ cb.threshold = 2
    /\ now > cbObs.at
    /\ ~can_execute(cb, now)

\* C6: on_success() called in any state leaves the breaker Closed with failure
\* count 0, and the breaker is not Closed again only after threshold failures
\* in a row since then.
ThmC6 ==
    /\ cbObs.op = "on_success" => cb.state = "Closed" /\ cb.failure_count = 0
    /\ cb.state # "Closed" => cbObs.streak >= cb.threshold

WitC6 ==
    /\ cbObs.op = "on_success" /\ cbObs.prev = "Open"
    /\ cb.state = "Closed" /\ cb.threshold = 2

(***************************************************************************)
(* Claims about retry_with_backoff, checked under SpecRetry                *)
(***************************************************************************)

\* C7: an operation that fails k times and then succeeds, with k < max_attempts,
\* makes the wrapper return the success value after exactly k+1 invocations.
ThmC7 ==
    (rt.pc = "done" /\ ~rt.op.always /\ rt.op.failFirst < rt.max_attempts) =>
        /\ rt.result = Some(<<"Ok", 42>>)
        /\ rt.calls = rt.op.failFirst + 1

WitC7 ==
    /\ rt.pc = "done" /\ ~rt.op.always
    /\ rt.op.failFirst = 2 /\ rt.max_attempts = 3
    /\ rt.calls = 3

\* C8 as stated: for every max_attempts an operation that always fails is
\* invoked exactly max_attempts times and the last error is returned.
OrigC8 ==
    (rt.pc = "done" /\ rt.op.always) =>
        /\ rt.calls = rt.max_attempts
        /\ rt.result = Some(<<"Err", rt.calls>>)

\* C8 as amended: an operation that always fails is invoked exactly
\* max(1, max_attempts) times (once when max_attempts is 0), the wrapper then
\* returns the error of the last invocation, and until it has returned it can
\* take a step and has invocations left (so it terminates).
ThmC8 ==
    rt.op.always /\ rt.pc # "idle" =>
        /\ rt.pc = "done" =>
              /\ rt.calls = Max(1, rt.max_attempts)
              /\ rt.result = Some(<<"Err", rt.calls>>)
        /\ rt.pc # "done" =>
              /\ rt.pc \in {"loop", "sleep"}
              /\ rt.calls < Max(1, rt.max_attempts)

WitC8 ==
    /\ rt.pc = "done" /\ rt.op.always
    /\ rt.max_attempts = 3 /\ rt.calls = 3
    /\ rt.delay > 10

(***************************************************************************)
(* Claims about the synthesis router, checked under SpecTTS                *)
(***************************************************************************)

\* a call that has passed the breaker and whose outcome is not yet recorded
InFlight(p) == call[p].pc \in {"retry", "got", "failed"}

\* C2: a synthesize call issued after a call with the same key has returned Ok
\* (and the cache has not evicted the key since) completes without invoking
\* the backend, on the GCP path and on the VOICEVOX path.
OrigC2 ==
    \A p \in Callers : call[p].after => call[p].attempts = 0

\* The GCP half of C2 taken alone: it holds, synthesize_gcp puts the key
\* before it returns Ok.
GcpHalfC2 ==
    \A p \in Callers :
        (call[p].after /\ BackendOf(call[p].key) = "GCP") => call[p].attempts = 0

\* C4: while the trial call admitted by a HalfOpen breaker is in flight, no
\* other call for the same backend is admitted.
OrigC4 ==
    ~ \E p, q \in Callers :
        /\ p # q
        /\ InFlight(p) /\ InFlight(q)
        /\ BackendOf(call[p].key) = BackendOf(call[q].key)
        /\ call[p].trial /\ call[q].trial

(***************************************************************************)
(* Claims about the registry and the store, checked under Spec             *)
(***************************************************************************)

\* C1: as long as every command sent to the store by setup, stop and the
\* monitor's evictions has succeeded, a guild has an entry in the registry if
\* and only if the persisted set of active instances holds its id.
ThmC1 ==
    dbFaults = 0 =>
        \A g \in Guilds : g \in DOMAIN storage <=> g \in database.list

WitC1 ==
    /\ dbFaults = 0
    /\ ops = {"setup", "stop", "evict"}
    /\ "g1" \in DOMAIN storage /\ "g1" \in database.list
    /\ "g2" \notin DOMAIN storage /\ "g2" \notin database.list

(***************************************************************************)
(* Claims about reading, checked under SpecRead                            *)
(***************************************************************************)

OrigC16 ==
    (ev.kind = "leave" /\ ev.reads /\ ev.had_handle /\ ~ev.synthOk) =>
        ev.enqueued = 0 /\ ev.returned

\* C17: every setup, stop and skip command calls create_response at least
\* once.
OrigC17 == ev.kind \in {"setup", "stop", "skip"} => ev.responded

\* the monitor's budget of reconnections for a guild is used up in this tick:
\* it was before the tick, or the failed reconnect of the tick used the last
Exhausted(seen) ==
    \/ seen.attempts >= MAX_RECONNECTION_ATTEMPTS
    \/ seen.reconnect = "err" /\ seen.attempts + 1 >= MAX_RECONNECTION_ATTEMPTS

\* C20: the monitor evicts a session only if it saw the session disconnected
\* and either found its voice channel without users or had no reconnection
\* left; a session seen connected, or whose occupancy query failed, stays.
OrigC20 ==
    ev.kind = "tick" =>
        \A g \in ev.evicted :
            /\ ~ev.seen[g].connected
            /\ ev.seen[g].has_users # "err"
            /\ ev.seen[g].has_users = "no" \/ Exhausted(ev.seen[g])

(***************************************************************************)
(* TTSInstance::reconnect (SpecReconnect)                                  *)
(***************************************************************************)

ThmC15 ==
    [][(ev'.kind = "reconnect" /\ is_connected(ev'.g)) =>
           /\ ev'.result = "ok" /\ ev'.joins = 0 /\ ev'.leaves = 0
           /\ calls' = calls /\ storage' = storage /\ database' = database]_vars

WitC15 ==
    /\ ev.kind = "reconnect" /\ ev.was_connected /\ ev.again
    /\ ev.result = "ok" /\ calls[ev.g] = "connected"

(***************************************************************************)
(* The persisted session (SpecStore)                                       *)
(***************************************************************************)

PatternsOf(rules) == {rules[i].rule : i \in 1..Len(rules)}

\* two patterns overlap when one occurs in the other or an end of one is a
\* start of the other; a pattern overlaps itself when it has a border
Overlap(p, q) ==
    \/ p # q /\ (Contains(p, q) \/ Contains(q, p))
    \/ \E n \in 1..(Min(Len(p), Len(q)) - 1) :
          SubSeq(p, Len(p) - n + 1, Len(p)) = SubSeq(q, 1, n)

NonOverlapping(rules) ==
    /\ \A i, j \in 1..Len(rules) : i # j => rules[i].rule # rules[j].rule
    /\ \A p, q \in PatternsOf(rules) : ~Overlap(p, q)

\* no replacement text contains a pattern
Clean(rules) ==
    \A i \in 1..Len(rules) : \A p \in PatternsOf(rules) : ~Contains(rules[i].to, p)

\* no replacement text shares a character with a pattern
Apart(rules) ==
    \A i \in 1..Len(rules) : \A p \in PatternsOf(rules) :
        \A m \in 1..Len(rules[i].to), n \in 1..Len(p) : rules[i].to[m] # p[n]

ThmC21 ==
    /\ \A g \in DOMAIN reconnection_attempts :
           reconnection_attempts[g] < MAX_RECONNECTION_ATTEMPTS
    /\ ev.kind = "tick" =>
           \A g \in DOMAIN ev.seen :
               ev.seen[g].reconnect = "err" =>
                   /\ ev.seen[g].has_users = "yes"
                   /\ ev.seen[g].streak < MAX_RECONNECTION_ATTEMPTS
                   /\ IF ev.seen[g].attempts + 1 >= MAX_RECONNECTION_ATTEMPTS
                      THEN /\ g \in ev.evicted
                           /\ g \notin DOMAIN storage
                           /\ g \notin DOMAIN reconnection_attempts
                      ELSE /\ g \notin ev.evicted
                           /\ g \in DOMAIN reconnection_attempts
                           /\ reconnection_attempts[g] = ev.seen[g].attempts + 1

\* the third failed reconnection in a row evicts the guild
WitC21 ==
    /\ ev.kind = "tick"
    /\ \E g \in DOMAIN ev.seen :
           /\ ev.seen[g].reconnect = "err"
           /\ ev.seen[g].streak = MAX_RECONNECTION_ATTEMPTS - 1
           /\ ev.seen[g].attempts = MAX_RECONNECTION_ATTEMPTS - 1
           /\ g \in ev.evicted
    /\ \E g \in DOMAIN ev.seen :
           /\ ev.seen[g].reconnect = "err"
           /\ g \in DOMAIN reconnection_attempts
           /\ reconnection_attempts[g] = 1

\* C22: a session the tick sees disconnected whose voice channel has no user
\* (an absent channel is answered the same way, connection_monitor.rs:264-270)
\* is evicted by that tick, its counter is cleared and no reconnection is
\* tried for it.
ThmC22 ==
    ev.kind = "tick" =>
        \A g \in DOMAIN ev.seen :
            (~ev.seen[g].connected /\ ev.seen[g].has_users = "no") =>
                /\ g \in ev.evicted
                /\ g \notin DOMAIN storage
                /\ g \notin DOMAIN reconnection_attempts
                /\ ev.seen[g].reconnect = "none"

\* such a session had a failed reconnection counted before the tick
WitC22 ==
    /\ ev.kind = "tick"
    /\ \E g \in DOMAIN ev.seen :
           /\ ~ev.seen[g].connected
           /\ ev.seen[g].has_users = "no"
           /\ ev.seen[g].attempts > 0
           /\ g \in ev.evicted
           /\ g \notin DOMAIN reconnection_attempts

ThmC24 ==
    ev.kind = "tick" =>
        /\ DOMAIN ev.seen = ev.registry
        /\ \A g \in ev.registry :
               (~ev.seen[g].connected /\ ev.seen[g].has_users = "yes"
                /\ ev.seen[g].attempts < MAX_RECONNECTION_ATTEMPTS) =>
                   ev.seen[g].reconnect # "none"

\* the audit of each guild is followed or preceded by a failed audit of the other
WitC24 ==
    /\ ev.kind = "tick"
    /\ ev.registry = Guilds
    /\ \E g \in Guilds, h \in Guilds :
           /\ g = "g1" /\ h = "g2"
           /\ ev.seen[g].has_users = "err" \/ ev.seen[g].reconnect = "err"
           /\ ev.seen[h].reconnect = "ok"

(***************************************************************************)
(* One utterance and the breaker (SpecUtter)                               *)
(***************************************************************************)

\* C25: a synthesize call that misses the cache and whose k backend attempts
\* all fail raises its backend's breaker's failure count by k.
OrigC25 ==
    utter.last.kind = "failed" => utter.last.raised = utter.last.k

\* C26: a synthesize call that misses the cache while its backend's breaker is
\* Open with the timeout not elapsed returns the error without one invocation
\* of the backend, and leaves the cache, the breaker's state and its failure
\* count as they were.
ThmC26 ==
    (utter.check.kind = "check" /\ utter.check.open) =>
        /\ utter.check.refused
        /\ utter.check.same
        /\ call[Reader] = IdleCall
        /\ utter.pc \in {"loop", "silence"}

\* a call was refused by the Open breaker of GCP, which is as it was
WitC26 ==
    /\ utter.check.kind = "check" /\ utter.check.open /\ utter.check.refused
    /\ utter.key = Some(<<"GCP", "a", "v1">>)
    /\ breaker["GCP"].state = "Open"
    /\ breaker["GCP"].failure_count = DefaultThreshold
    /\ cache = <<>>
    /\ utter.pc = "silence"

\* C27: for one utterance read on a cache miss the backend's network call is
\* invoked at most SynthMaxAttempts times before the utterance yields audio
\* or silence.
OrigC27 == utter.invocations <= SynthMaxAttempts

(***************************************************************************)
(* The registry's write lock (SpecLock)                                    *)
(***************************************************************************)
\* the place of handler h in the order of lock acquisitions
PlaceOf(h) == CHOOSE i \in 1..Len(order) : order[i] = h

\* the handlers inside the section the write lock guards
InSection == {h \in Handlers : handler[h].pc \in {"locked", "read", "absent", "inserted"}}

\* C28: message handlers of one guild mutate the session one at a time: from
\* a handler's update of before_message to its enqueue no other handler is in
\* the section and the session still holds that handler's message; tracks are
\* enqueued in the order in which their handlers got the registry's lock.
ThmC28 ==
    /\ Cardinality(InSection) <= 1
    /\ \A h \in Handlers :
           handler[h].pc = "read" =>
               /\ lock = Some(h)
               /\ storage[LockGuild].before_message = Some(MessageOf(h))
    /\ \A i \in 1..Len(queue), j \in 1..Len(queue) :
           i < j => PlaceOf(queue[i]) < PlaceOf(queue[j])

\* two messages were read while both handlers were running; h2 got the lock
\* first and its track is first
WitC28 ==
    /\ \A h \in Handlers : handler[h].kind = "message" /\ handler[h].pc = "done"
    /\ order = <<"h2", "h1">>
    /\ queue = <<"h2", "h1">>
    /\ storage[LockGuild].before_message = Some(MessageOf("h1"))

\* the handlers that make sessions
Creators == {h \in Handlers : handler[h].kind \in {"setup", "autostart"}}

\* C29: of two setups, or a setup and an autostart join, running concurrently
\* in a guild with no session, at most one creates the session; when both ran
\* to their end exactly one created it and the other found it and left the
\* registry and the store as they were. (When both found a session, the guild
\* had one before either came and neither made one.)
ThmC29 ==
    /\ Cardinality({h \in Handlers : handler[h].created}) <= 1
    /\ \A h \in Handlers :
           handler[h].pc \in {"absent", "inserted"} => lock = Some(h)
    /\ (/\ Creators = Handlers
        /\ \A h \in Handlers : handler[h].pc = "done" /\ ~handler[h].panicked) =>
           IF \A h \in Handlers : handler[h].saw       \* the guild had a session before
           THEN \A h \in Handlers : ~handler[h].created /\ handler[h].kept
           ELSE \E h \in Handlers, o \in Handlers :
                   /\ h # o
                   /\ handler[h].created /\ ~handler[h].saw
                   /\ handler[o].saw /\ ~handler[o].created /\ handler[o].kept
                   /\ storage[LockGuild] = InstanceOf(h)
                   /\ database.blob[LockGuild] = Serialize(InstanceOf(h))

\* a setup and an autostart join ran concurrently; the setup, second to ask
\* for the lock's section, found the session of the join
WitC29 ==
    /\ handler["h1"].kind = "setup" /\ handler["h2"].kind = "autostart"
    /\ \A h \in Handlers : handler[h].pc = "done"
    /\ order = <<"h2", "h1">>
    /\ handler["h2"].created /\ handler["h1"].saw /\ handler["h1"].kept
    /\ storage[LockGuild].text_channels = <<"V">>
    /\ LockGuild \in database.list

(***************************************************************************)
(* Restoration at startup (SpecRestore)                                    *)
(***************************************************************************)

ThmC31 ==
    (norm.kind = "rules" /\ norm.out # None)
        => norm.out = Some(ApplyRules(Compiling(norm.rules), norm.text))

\* a list with the rule that does not compile before a rule that changes the
\* text has been applied
WitC31 ==
    /\ norm.kind = "rules" /\ norm.out # None
    /\ Len(norm.rules) = 3
    /\ norm.rules[1].id = "h" /\ norm.rules[2].id = "bad" /\ norm.rules[3].id = "w"
    /\ norm.text = <<"hello">>
    /\ norm.out = Some(<<"world">>)

\* the id of the rule a removal took out of the copy it had read
RemovedBy(h) == handler[h].copy[1].dictionary[handler[h].i + 1].id

\* the id of the rule the user picked in the menu shown
PickedBy(h) == handler[h].menu[1][handler[h].i + 1].id

OrigC40 ==
    \A h \in Handlers, k \in Handlers :
        (/\ handler[h].pc = "done" /\ handler[h].kind = "add"
         /\ handler[k].pc = "done" /\ handler[k].kind = "toggle")
            => /\ NewRule \in SeqSet(server_config[1].dictionary)
               /\ server_config[1].read_username = handler[k].wrote[1].read_username

\* C33: every session of the registry and every persisted session record has
\* a text_channels list that is not empty, after any sequence of
\* add_text_channel and remove_text_channel on sessions created by setup or
\* the autostart
OrigC33 ==
    /\ \A g \in DOMAIN storage : storage[g].text_channels # <<>>
    /\ \A g \in DOMAIN database.blob : database.blob[g].text_channels # <<>>

\* C34: when the leave of a user from the session's voice channel leaves the
\* channel with no user, the handler removes the session from the registry,
\* deletes its persisted record and has the voice transport leave
OrigC34 ==
    (ev.kind = "leave" /\ occ[ev.g] = 0)
        => /\ ev.g \notin DOMAIN storage
           /\ ev.g \notin DOMAIN database.blob
           /\ calls[ev.g] = "none"

\* C35: whenever read runs for a guild of the registry, the voice transport
\* holds a call handle for that guild: a read that has its audio always finds
\* the handle it unwraps
OrigC35 ==
    (ev.kind = "leave" /\ ev.reads /\ ev.synthOk) => ev.had_handle

\* C36: at the end of every monitor tick a guild has a retry counter that is
\* not zero only if it is in the registry and was seen disconnected in that
\* tick
OrigC36 ==
    ev.kind = "tick" =>
        \A g \in DOMAIN reconnection_attempts :
            reconnection_attempts[g] > 0 =>
                /\ g \in DOMAIN storage
                /\ g \in DOMAIN ev.seen
                /\ ~ev.seen[g].connected

\* whether a user with this voice state, if any, is in the channel
InChannel(state, channel) == state # None /\ state[1].channel_id = Some(channel)

\* C37: a change in which the user was in the session's voice channel and is
\* no longer in it, disconnected or moved to another channel, is classified
\* LEAVE; a change into that channel from no channel or another channel is
\* classified JOIN; every other change is NONE
OrigC37 ==
    (norm.kind = "move" /\ norm.out # None) =>
        LET was == InChannel(norm.old, norm.target_channel)
            is == InChannel(Some(norm.new), norm.target_channel)
        IN  norm.out = Some(IF was /\ ~is THEN "LEAVE"
                            ELSE IF ~was /\ is THEN "JOIN"
                            ELSE "NONE")

ThmC39 ==
    [][(/\ call[Reader].pc = "idle"
        /\ utter' # utter
        /\ utter'.key[1] \in SeqSet(cache))
           => /\ utter'.pc = "audio"
              /\ breaker' = breaker
              /\ call' = call]_vars

\* a call has returned cached audio while the breaker of its backend is Open
WitC39 ==
    /\ utter.pc = "audio"
    /\ utter.check = NoCheck
    /\ utter.invocations = 0
    /\ breaker[BackendOf(utter.key[1])].state = "Open"

====
